---------------------------- MODULE Spec2Model ----------------------------
(***************************************************************************)
(* Meeting-room reservation bot (Slack surface, Notion store).             *)
(*                                                                         *)
(* The model covers the modal-submission handlers of app.py (create,       *)
(* edit), the cancel button handler, the service-layer entry points of     *)
(* services/reservation_service.py and the Notion access layer of          *)
(* services/notion_service.py.  Every Notion call is one atomic step of    *)
(* the store; the handlers are split at their store calls, so that         *)
(* handlers running on different workers interleave between calls.         *)
(*                                                                         *)
(* Instants are whole slots of the home timezone (KST) on one day;         *)
(* a reservation occupies the half-open range [start, end).                *)
(***************************************************************************)
EXTENDS Integers, Sequences, FiniteSets, TLC

\* ------------------------------------------------------------------ bounds
\* Last selectable time slot of the day (slots are 0..MaxTime).
MaxTime == 2
\* Number of submissions started in one run of concurrent workers.
MaxOps == 2
\* Number of submissions started in one run of a single worker.
MaxSeqOps == 3
\* Last calendar day of the date picker in the function-level runs (days
\* are 0..MaxDay).
MaxDay == 1

\* ----------------------------------------------------------- configuration
NoneVal == "None"
MissingKey == "MissingKey"
\* An unparsable / absent time-picker value.
BadTime == -1

\* config.AppConfig.MEETING_ROOMS: room id -> name, default flag.
MEETING_ROOMS == [r \in {"room_1"} |-> [name |-> "SeminarRoom", is_default |-> TRUE]]

\* config.AppConfig.TEAMS: team id -> team name.
TEAMS ==
  [t \in {"team_marketing", "team_system", "team_operation",
          "team_franchise", "team_management", "team_etc"} |->
     CASE t = "team_marketing"  -> "Strategy"
       [] t = "team_system"     -> "System"
       [] t = "team_operation"  -> "Operation"
       [] t = "team_franchise"  -> "Franchise"
       [] t = "team_management" -> "Management"
       [] OTHER                 -> "Unassigned"]

\* The order in which MEETING_ROOMS.items() yields the rooms.
ROOM_ORDER == <<"room_1">>

\* AppConfig.get_default_room_id on registry rooms iterated in order: the
\* first room marked default, else None.
get_default_room_id(rooms, order) ==
  LET hits == {i \in DOMAIN order : rooms[order[i]].is_default} IN
    IF hits = {} THEN NoneVal
    ELSE order[CHOOSE i \in hits : \A j \in hits : i <= j]

\* The room id taken from the form whatever is selected.
room_id_of_selected_only(selected_room, rooms, order) == selected_room

\* parse_modal_data, line 56: the selected option's value, or the default
\* room when no option is selected.
room_id_of(selected_room, rooms, order) ==
  IF selected_room # NoneVal THEN selected_room ELSE get_default_room_id(rooms, order)

\* parse_modal_data, line 57: the test that raises the room error.
room_rejected(room_id, rooms) ==
  room_id = NoneVal \/ room_id = "" \/ room_id \notin DOMAIN rooms

\* Room names that can occur in the store: the registry's names and one name
\* the registry does not know (the database is shared and hand-editable).
ForeignRoom == "OtherRoom"
StoreRooms == {MEETING_ROOMS[r].name : r \in DOMAIN MEETING_ROOMS} \cup {ForeignRoom}

\* The workers of the handler pool on which submissions run.
Procs == {"w1", "w2"}

\* ------------------------------------------------------------------ inputs
\* str.strip() on the titles the form can carry.
Strip(t) ==
  CASE t = " T " -> "T"
    [] t = " "   -> ""
    [] OTHER     -> t

Slots == 0..MaxTime

\* The submitted view: shape "no_state" lacks view["state"]["values"], shape
\* "title_not_str" carries a title value that is not a string; a field equal
\* to MissingKey lacks its block; NoneVal is an empty selection.
GoodView == [shape |-> "ok", title |-> "T", room |-> "room_1",
             start_time |-> 0, end_time |-> 1, team |-> "team_system"]

\* The views the handlers are driven with: every pair of time slots with the
\* other fields valid, and one view per way a field can be wrong.
Views ==
  {[GoodView EXCEPT !.start_time = s, !.end_time = e] : s \in Slots, e \in Slots}
  \cup {[GoodView EXCEPT !.title = t] : t \in {" T ", " ", NoneVal}}
  \cup {[GoodView EXCEPT !.room = r] : r \in {NoneVal, "room_x"}}
  \cup {[GoodView EXCEPT !.start_time = BadTime]}
  \cup {[GoodView EXCEPT !.team = t] : t \in {NoneVal, "team_x", MissingKey}}
  \cup {[GoodView EXCEPT !.shape = "no_state"]}

\* Every form a submission can carry: each field takes each of its values
\* whatever the other fields hold.
FormTitles == {"T", " T ", " ", "", NoneVal, MissingKey}
FormRooms == {"room_1", NoneVal, "room_x", MissingKey}
FormTimes == Slots \cup {BadTime}
FormTeams == {"team_system", NoneVal, "team_x", MissingKey}

Forms ==
  [shape : {"ok", "no_state", "title_not_str"}, title : FormTitles, room : FormRooms,
   start_time : FormTimes, end_time : FormTimes, team : FormTeams]

\* The elements of a sequence.
Range(q) == {q[i] : i \in DOMAIN q}

\* Exception kinds.
NoExc == "NoExc"
ValidationError == "ValidationError"
ConflictError == "ConflictError"
NotionError == "NotionError"
GenericException == "Exception"

\* page_id 0 is the page_id None of a ReservationData.
NoData == [title |-> "", room_id |-> "", room_name |-> "",
           start_dt |-> 0, end_dt |-> 0, team_id |-> "", team_name |-> "",
           page_id |-> 0]

Raise(kind, msg) == [exc |-> kind, msg |-> msg, data |-> NoData]
Return(d) == [exc |-> NoExc, msg |-> "", data |-> d]

\* utils.error_handler.handle_exceptions: business and Notion errors pass
\* unchanged, anything else becomes a plain Exception whose text is the
\* default message followed by the text of the caught exception.
handle_exceptions(r) ==
  IF r.exc \in {NoExc, ValidationError, ConflictError, NotionError}
    THEN r
    ELSE Raise(GenericException, "default_message: " \o r.msg)

\* parse_modal_data without the test of line 70 (start_dt >= end_dt).
parse_modal_data_body_no_order(view) ==
  IF view.shape = "no_state" THEN Raise("KeyError", "state")
  ELSE IF view.shape = "title_not_str" THEN Raise("AttributeError", "strip")
  ELSE IF view.title \in {MissingKey, NoneVal, "", " "} THEN Raise(ValidationError, "title")
  ELSE IF view.room \notin DOMAIN MEETING_ROOMS /\ view.room # NoneVal
    THEN Raise(ValidationError, "room")
  ELSE IF view.start_time = BadTime \/ view.end_time = BadTime
    THEN Raise(ValidationError, "generic")
  ELSE IF view.team \notin DOMAIN TEAMS THEN Raise(ValidationError, "team")
  ELSE Return([title |-> Strip(view.title), room_id |-> "room_1",
               room_name |-> MEETING_ROOMS["room_1"].name,
               start_dt |-> view.start_time, end_dt |-> view.end_time,
               team_id |-> view.team, team_name |-> TEAMS[view.team],
               page_id |-> 0])

\* parse_modal_data with the room tested before the title.
parse_modal_data_body_room_first(view) ==
  IF view.shape = "no_state" THEN Raise("KeyError", "state")
  ELSE IF view.shape = "title_not_str" THEN Raise("AttributeError", "strip")
  ELSE IF view.room = MissingKey THEN Raise(ValidationError, "generic")
  ELSE LET room_id == room_id_of(view.room, MEETING_ROOMS, ROOM_ORDER) IN
    IF room_rejected(room_id, MEETING_ROOMS)
      THEN Raise(ValidationError, "room")
    ELSE IF view.title = MissingKey THEN Raise(ValidationError, "generic")
    ELSE IF view.title = NoneVal \/ view.title = "" \/ Strip(view.title) = ""
      THEN Raise(ValidationError, "title")
    ELSE IF view.start_time = BadTime \/ view.end_time = BadTime
      THEN Raise(ValidationError, "generic")
    ELSE IF view.start_time >= view.end_time
      THEN Raise(ValidationError, "time_order")
    ELSE IF view.team = MissingKey THEN Raise(ValidationError, "generic")
    ELSE IF view.team = NoneVal THEN Raise(ValidationError, "team_missing")
    ELSE IF view.team \notin DOMAIN TEAMS THEN Raise(ValidationError, "team_invalid")
    ELSE Return([title |-> Strip(view.title), room_id |-> room_id,
                 room_name |-> MEETING_ROOMS[room_id].name,
                 start_dt |-> view.start_time, end_dt |-> view.end_time,
                 team_id |-> view.team, team_name |-> TEAMS[view.team],
                 page_id |-> 0])

\* Body of ReservationService.parse_modal_data, before the decorator.
parse_modal_data_body(view) ==
  IF view.shape = "no_state" THEN Raise("KeyError", "state")
  ELSE IF view.shape = "title_not_str" THEN Raise("AttributeError", "strip")
  ELSE IF view.title = MissingKey THEN Raise(ValidationError, "generic")
  ELSE IF view.title = NoneVal \/ view.title = "" \/ Strip(view.title) = ""
    THEN Raise(ValidationError, "title")
  ELSE IF view.room = MissingKey THEN Raise(ValidationError, "generic")
  ELSE LET room_id == room_id_of(view.room, MEETING_ROOMS, ROOM_ORDER) IN
    IF room_rejected(room_id, MEETING_ROOMS)
      THEN Raise(ValidationError, "room")
    ELSE IF view.start_time = BadTime \/ view.end_time = BadTime
      THEN Raise(ValidationError, "generic")
    ELSE IF view.start_time >= view.end_time
      THEN Raise(ValidationError, "time_order")
    ELSE IF view.team = MissingKey THEN Raise(ValidationError, "generic")
    ELSE IF view.team = NoneVal THEN Raise(ValidationError, "team_missing")
    ELSE IF view.team \notin DOMAIN TEAMS THEN Raise(ValidationError, "team_invalid")
    ELSE Return([title |-> Strip(view.title), room_id |-> room_id,
                 room_name |-> MEETING_ROOMS[room_id].name,
                 start_dt |-> view.start_time, end_dt |-> view.end_time,
                 team_id |-> view.team, team_name |-> TEAMS[view.team],
                 page_id |-> 0])

parse_modal_data(view) == handle_exceptions(parse_modal_data_body(view))

\* ------------------------------------------------------------------- store
\* NotionService._build_reservation_properties.
build_reservation_properties(d) ==
  [title |-> d.title, room |-> d.room_name, start |-> d.start_dt,
   end |-> d.end_dt, team |-> d.team_name]

\* The page the store holds after pages.create(properties).
NewPage(props) ==
  [title |-> props.title, room |-> props.room, start |-> props.start,
   end |-> props.end, team |-> props.team, archived |-> FALSE]

\* The update writing the page anew, as a live page.
UpdatedPage_as_new(page, props) ==
  [title |-> props.title, room |-> props.room, start |-> props.start,
   end |-> props.end, team |-> props.team, archived |-> FALSE]

\* The page after pages.update(page_id, properties): the archived flag is
\* not among the properties sent.
UpdatedPage(page, props) ==
  [title |-> props.title, room |-> props.room, start |-> props.start,
   end |-> props.end, team |-> props.team, archived |-> page.archived]

\* The archive call flipping the flag of the page.
ArchivedPage_toggle(page) == [page EXCEPT !.archived = ~page.archived]

\* The page after pages.update(page_id, archived=True).
ArchivedPage(page) == [page EXCEPT !.archived = TRUE]

\* _build_conflict_filter with the two instants swapped.
build_conflict_filter_swapped(start_dt, end_dt, room_name) ==
  [start_before |-> start_dt, end_after |-> end_dt, room_equals |-> room_name]

\* NotionService._build_conflict_filter: stored start strictly before the
\* candidate end, stored end strictly after the candidate start, same room.
build_conflict_filter(start_dt, end_dt, room_name) ==
  [start_before |-> end_dt, end_after |-> start_dt, room_equals |-> room_name]

\* The query as on_or_before / on_or_after would answer it.
database_query_inclusive(st, f) ==
  {i \in DOMAIN st : /\ ~st[i].archived
                     /\ st[i].start <= f.start_before
                     /\ st[i].end >= f.end_after
                     /\ st[i].room = f.room_equals}

\* The query without the room condition.
database_query_any_room(st, f) ==
  {i \in DOMAIN st : /\ ~st[i].archived
                     /\ st[i].start < f.start_before
                     /\ st[i].end > f.end_after}

\* The query answered from archived pages as well.
database_query_with_archived(st, f) ==
  {i \in DOMAIN st : /\ st[i].start < f.start_before
                     /\ st[i].end > f.end_after
                     /\ st[i].room = f.room_equals}

\* databases.query(filter): the ids of the non-archived pages matching all
\* three conditions of the filter.
database_query(st, f) ==
  {i \in DOMAIN st : /\ ~st[i].archived
                     /\ st[i].start < f.start_before
                     /\ st[i].end > f.end_after
                     /\ st[i].room = f.room_equals}

\* get_conflicting_reservations without the exclusion of lines 62-63.
exclude_page_none(results, exclude_page_id) == results

\* The client-side exclusion of get_conflicting_reservations; page id 0 is
\* the empty exclude_page_id.
exclude_page(results, exclude_page_id) ==
  IF exclude_page_id # 0 THEN results \ {exclude_page_id} ELSE results

\* NotionService.get_conflicting_reservations on a query that returned.
get_conflicting_reservations(st, start_dt, end_dt, room_name, exclude_page_id) ==
  exclude_page(database_query(st, build_conflict_filter(start_dt, end_dt, room_name)),
               exclude_page_id)

\* The orders in which the store may return a result set (the conflict
\* query passes no sort).
Orderings(S) ==
  {q \in [1..Cardinality(S) -> S] : \A i, j \in 1..Cardinality(S) : i # j => q[i] # q[j]}

\* ------------------------------------------------------- dates and times
\* Wall-clock times are counted in half hours: a day has SlotsPerDay of them,
\* a UTC offset is a number of half hours, KST is UTC+9.
SlotsPerDay == 48
KST == 18

\* An aware datetime is a wall-clock reading (half hours since day 0, 00:00)
\* with the UTC offset it is read in.
\* datetime.strptime(date + " " + time, "%Y-%m-%d %H:%M").replace(tzinfo=tz).
strptime(date_str, time_str, tz) == [wall |-> date_str * SlotsPerDay + time_str, off |-> tz]

\* datetime.isoformat(): date, time of day and offset of the reading.
isoformat(dt) ==
  [date |-> dt.wall \div SlotsPerDay, time |-> dt.wall % SlotsPerDay, off |-> dt.off]

\* datetime.fromisoformat(text.replace("Z", "+00:00")).
fromisoformat(iso) == [wall |-> iso.date * SlotsPerDay + iso.time, off |-> iso.off]

\* datetime.astimezone(tz): the same instant read in offset tz.
astimezone(dt, tz) == [wall |-> dt.wall - dt.off + tz, off |-> tz]

\* strftime("%Y-%m-%d") and strftime("%H:%M").
strftime_date(dt) == dt.wall \div SlotsPerDay
strftime_time(dt) == dt.wall % SlotsPerDay

\* parse_modal_data, the date and time pickers (reservation_service.py 62-68).
parse_modal_datetimes(view) ==
  [start_dt |-> strptime(view.date, view.start_time, KST),
   end_dt   |-> strptime(view.date, view.end_time, KST)]

\* _build_reservation_properties, the two date properties.
build_date_properties(d) ==
  [start |-> isoformat(d.start_dt), end |-> isoformat(d.end_dt)]

\* The page as pages.retrieve returns it: the store keeps the instants and
\* answers with them written in the offset of its choice.
retrieved_page(props, tz) ==
  [start |-> isoformat(astimezone(fromisoformat(props.start), tz)),
   end   |-> isoformat(astimezone(fromisoformat(props.end), tz))]

\* parse_reservation_for_modal reading the stored instants as they come,
\* without the conversion to KST.
parse_reservation_for_modal_no_kst(page) ==
  LET start_dt == fromisoformat(page.start)
      end_dt   == fromisoformat(page.end)
  IN  [date |-> strftime_date(start_dt), start_time |-> strftime_time(start_dt),
       end_time |-> strftime_time(end_dt)]

\* parse_reservation_for_modal, date and times (reservation_service.py
\* 562-582): the date and the start time come from the start instant in KST,
\* the end time from the end instant in KST.
parse_reservation_for_modal(page) ==
  LET start_dt_kst == astimezone(fromisoformat(page.start), KST)
      end_dt_kst   == astimezone(fromisoformat(page.end), KST)
  IN  [date |-> strftime_date(start_dt_kst), start_time |-> strftime_time(start_dt_kst),
       end_time |-> strftime_time(end_dt_kst)]

\* The date and time pickers of a valid create, with the offset the store
\* will answer in: UTC, KST, UTC-5, UTC+5:30.
StoreOffsets == {0, KST, -10, 11}
TimesOfDay == 0..(SlotsPerDay - 1)
PickerInputs ==
  {v \in [date : 0..MaxDay, start_time : TimesOfDay, end_time : TimesOfDay,
          off : StoreOffsets] : v.start_time < v.end_time}

\* tzinfo None of a naive datetime, and the target_date None.
Naive == 1000
NoDate == [wall |-> -1, off |-> Naive]

\* The instant of an aware datetime, on the UTC clock.
utc(dt) == dt.wall - dt.off

\* A naive datetime given the local timezone by astimezone() (date_utils.py
\* 49-52); an aware one is left as it is.
localize(dt, local_tz) == IF dt.off = Naive THEN [dt EXCEPT !.off = local_tz] ELSE dt

\* utils.date_utils.get_date_range_for_day: 00:00:00.000000 and
\* 23:59:59.999999 of the day of target_date, the first and the last instant
\* of that day.
get_date_range_for_day(target_date, local_tz) ==
  LET midnight == (target_date.wall \div SlotsPerDay) * SlotsPerDay IN
    [start_of_day |-> localize([target_date EXCEPT !.wall = midnight], local_tz),
     end_of_day   |-> localize([target_date EXCEPT !.wall = midnight + SlotsPerDay - 1],
                               local_tz)]

\* The instant of the stored start of a page: stored starts are KST readings.
page_start(page) == [wall |-> page.start, off |-> KST]

\* The date query with "before" in the place of "on_or_before".
query_by_start_exclusive(st, on_or_after, on_or_before) ==
  LET hits == {i \in DOMAIN st : /\ ~st[i].archived
                                 /\ utc(page_start(st[i])) >= utc(on_or_after)
                                 /\ utc(page_start(st[i])) < utc(on_or_before)}
  IN  {q \in Orderings(hits) :
         \A i, j \in DOMAIN q : i < j => st[q[i]].start <= st[q[j]].start}

\* databases.query with the two date conditions on the stored start and the
\* sort ascending by start (notion_service.py 221-246): the non-archived
\* pages within the two instants, in every order the sort allows (pages with
\* equal starts come in any order).
query_by_start(st, on_or_after, on_or_before) ==
  LET hits == {i \in DOMAIN st : /\ ~st[i].archived
                                 /\ utc(page_start(st[i])) >= utc(on_or_after)
                                 /\ utc(page_start(st[i])) <= utc(on_or_before)}
  IN  {q \in Orderings(hits) :
         \A i, j \in DOMAIN q : i < j => st[q[i]].start <= st[q[j]].start}

\* NotionService.get_reservations_by_date(target_date) on a query that
\* returned; now is the reading of datetime.now(), a naive local time.
get_reservations_by_date(st, target_date, now, local_tz) ==
  LET day == get_date_range_for_day(IF target_date = NoDate THEN now ELSE target_date,
                                    local_tz)
  IN  query_by_start(st, day.start_of_day, day.end_of_day)

\* The clock of the handler runs: day 0 of a server whose timezone is KST.
RunNow == [wall |-> 0, off |-> Naive]

\* ------------------------------------------------------------------- state
VARIABLES
  store,      \* sequence of pages; a page id is its index
  pc,         \* per worker: position in the running handler
  kind,       \* per worker: which operation it runs
  data,       \* per worker: the parsed ReservationData
  target,     \* per worker: page id of an edit or cancel (0: none)
  conflicts,  \* per worker: result of its latest conflict query
  log,        \* per worker: calls and replies of the running submission
  raised,     \* per worker: exception that ended the service-layer call
  outcome,    \* per worker: terminal outcome of the submission
  verdict,    \* per worker: whether the submitted input obeys the form rules
  ops,        \* submissions started so far
  input,      \* argument of the function under study (function-level runs)
  result      \* what the function returned or raised for it

vars == <<store, pc, kind, data, target, conflicts, log, raised, outcome, verdict, ops,
          input, result>>

\* The function under study has not been applied yet.
NoResult == [exc |-> "pending"]

\* The variables of the function-level runs; the handlers leave them alone.
fnvars == <<input, result>>

\* The variables of the handlers; the function-level runs leave them alone.
hvars == <<store, pc, kind, data, target, conflicts, log, raised, outcome, verdict, ops>>

\* A reservation made before the run: slots [1, 2) of a room of the registry
\* or of a room the registry does not know.
InitPages ==
  [title : {"T"}, room : StoreRooms, start : {1}, end : {2},
   team : {"System"}, archived : {FALSE}]

\* The database starts empty or with one live reservation.
InitStores == {<<>>} \cup {<<pg>> : pg \in InitPages}

\* No submission has arrived yet.
InitWorkers ==
  /\ pc = [p \in Procs |-> "idle"]
  /\ kind = [p \in Procs |-> "none"]
  /\ data = [p \in Procs |-> NoData]
  /\ target = [p \in Procs |-> 0]
  /\ conflicts = [p \in Procs |-> <<>>]
  /\ log = [p \in Procs |-> <<>>]
  /\ raised = [p \in Procs |-> NoExc]
  /\ outcome = [p \in Procs |-> "none"]
  /\ verdict = [p \in Procs |-> "none"]
  /\ ops = 0

Init ==
  /\ store \in InitStores
  /\ InitWorkers
  /\ input = NoneVal
  /\ result = NoResult

CanStart(p) == pc[p] \in {"idle", "done"}

\* The page ids a form or button can carry: existing pages, the next id
\* (a page that does not exist) and 0 (empty private_metadata).
PageIds == 0..(Len(store) + 1)

\* The form rules, read off the submitted view alone: title non-blank after
\* trimming, room absent or in the registry, two time slots with start before
\* end, team in the registry; an edit also needs a page id.
InputVerdict(view, needs_page, page_id) ==
  IF view.shape # "ok" THEN "malformed"
  ELSE IF /\ view.title \notin {MissingKey, NoneVal, "", " "}
          /\ view.room \in (DOMAIN MEETING_ROOMS) \cup {NoneVal}
          /\ view.start_time \in Slots /\ view.end_time \in Slots
          /\ view.start_time < view.end_time
          /\ view.team \in DOMAIN TEAMS
          /\ (needs_page => page_id # 0)
         THEN "valid" ELSE "invalid"

Finish(p, events, exc, out) ==
  /\ pc' = [pc EXCEPT ![p] = "done"]
  /\ log' = [log EXCEPT ![p] = log[p] \o events]
  /\ raised' = [raised EXCEPT ![p] = exc]
  /\ outcome' = [outcome EXCEPT ![p] = out]
  /\ UNCHANGED fnvars

Goto(p, label, events) ==
  /\ pc' = [pc EXCEPT ![p] = label]
  /\ log' = [log EXCEPT ![p] = log[p] \o events]
  /\ UNCHANGED <<raised, outcome>>
  /\ UNCHANGED fnvars

\* A user-facing message the handler sends inside its own try/except: a
\* failure of the send is logged and swallowed, so only the attempt is kept.
Notify(msg) == <<msg>>

\* A submission starts on worker p: the per-submission state is reset.
Begin(p, k, pg, v) ==
  /\ kind' = [kind EXCEPT ![p] = k]
  /\ target' = [target EXCEPT ![p] = pg]
  /\ conflicts' = [conflicts EXCEPT ![p] = <<>>]
  /\ verdict' = [verdict EXCEPT ![p] = v]
  /\ ops' = ops + 1
  /\ UNCHANGED store
  /\ UNCHANGED fnvars

\* The answer of both modal handlers to a ValidationError e (app.py 454-457,
\* 567-570): errors = {"title_block": str(e)}, as block id :> text.
ack_errors(e) ==
  [response_action |-> "errors", errors |-> ("title_block" :> e.msg)]

\* reservation_data.page_id = page_id after a parse that returned
\* (app.py 485, reservation_service.py 653).
set_page_id(r, page_id) ==
  IF r.exc = NoExc THEN [r EXCEPT !.data.page_id = page_id] ELSE r

\* What follows parse_modal_data in the caller: data -> go on to the conflict
\* check; an exception ends the call with the events the caller answers with.
AfterParse(p, r, on_validation, on_other) ==
  /\ data' = [data EXCEPT ![p] = r.data]
  /\ pc' = [pc EXCEPT ![p] = IF r.exc = NoExc THEN "check" ELSE "done"]
  /\ raised' = [raised EXCEPT ![p] = r.exc]
  /\ outcome' = [outcome EXCEPT ![p] =
       CASE r.exc = NoExc           -> "none"
         [] r.exc = ValidationError -> "RejectedValidation"
         [] OTHER                   -> "Failed"]
  /\ log' = [log EXCEPT ![p] =
       CASE r.exc = NoExc           -> <<"parse_ok">>
         [] r.exc = ValidationError -> <<"parse_raise">> \o on_validation
         [] OTHER                   -> <<"parse_raise">> \o on_other]

\* The conflict query of worker p as the store answers it now, in each order
\* the store may return it.
QueryResults(p) ==
  Orderings(get_conflicting_reservations(
              store, data[p].start_dt, data[p].end_dt, data[p].room_name, target[p]))

\* The handler going on to the persist step whatever the query returned.
HandlerCheck_ignoring(p, next) ==
  /\ UNCHANGED <<store, kind, data, target, verdict, ops>>
  /\ \E ok \in BOOLEAN :
       IF ~ok
         THEN /\ Finish(p, <<"query_fail", "ack">> \o Notify("msg_request_failed"),
                        NotionError, "Failed")
              /\ UNCHANGED conflicts
         ELSE \E ord \in QueryResults(p) :
                /\ conflicts' = [conflicts EXCEPT ![p] = ord]
                /\ Goto(p, next, <<"query_ok", "ack">>)

\* The handler waiting at the conflict check until the slot is free.
HandlerCheck_wait_until_free(p, next) ==
  /\ UNCHANGED <<store, kind, data, target, verdict, ops>>
  /\ QueryResults(p) = {<<>>}
  /\ conflicts' = [conflicts EXCEPT ![p] = <<>>]
  /\ Goto(p, next, <<"query_ok", "ack">>)

\* The handler answering a failed query with the failure message alone, the
\* ack() of the except branch left out.
HandlerCheck_silent_failure(p, next) ==
  /\ UNCHANGED <<store, kind, data, target, verdict, ops>>
  /\ \E ok \in BOOLEAN :
       IF ~ok
         THEN /\ Finish(p, <<"query_fail">> \o Notify("msg_request_failed"),
                        NotionError, "Failed")
              /\ UNCHANGED conflicts
         ELSE \E ord \in QueryResults(p) :
                /\ conflicts' = [conflicts EXCEPT ![p] = ord]
                /\ IF ord # <<>>
                     THEN Finish(p, <<"query_ok", "ack_update">>, NoExc, "RejectedConflict")
                     ELSE Goto(p, next, <<"query_ok", "ack">>)

\* The handler's own conflict query and what follows it in both modal
\* handlers: a failed query -> ack() and the generic failure message;
\* conflicts -> ack(update) with the first conflict shown; none -> ack().
HandlerCheck(p, next) ==
  /\ UNCHANGED <<store, kind, data, target, verdict, ops>>
  /\ \E ok \in BOOLEAN :
       IF ~ok
         THEN /\ Finish(p, <<"query_fail", "ack">> \o Notify("msg_request_failed"),
                        NotionError, "Failed")
              /\ UNCHANGED conflicts
         ELSE \E ord \in QueryResults(p) :
                /\ conflicts' = [conflicts EXCEPT ![p] = ord]
                /\ IF ord # <<>>
                     THEN Finish(p, <<"query_ok", "ack_update">>, NoExc, "RejectedConflict")
                     ELSE Goto(p, next, <<"query_ok", "ack">>)

\* The conflict query of the service-layer entry points
\* (reservation_service.py 206-216, 656-668): conflicts -> ConflictError
\* carrying the parsed conflicts.
ServiceCheck(p, next) ==
  /\ UNCHANGED <<store, kind, data, target, verdict, ops>>
  /\ \E ok \in BOOLEAN :
       IF ~ok
         THEN /\ Finish(p, <<"query_fail">>, NotionError, "Failed")
              /\ UNCHANGED conflicts
         ELSE \E ord \in QueryResults(p) :
                /\ conflicts' = [conflicts EXCEPT ![p] = ord]
                /\ IF ord # <<>>
                     THEN Finish(p, <<"query_ok">>, ConflictError, "RejectedConflict")
                     ELSE Goto(p, next, <<"query_ok">>)

\* create_reservation without the check of lines 163-175: straight to the
\* create.
FinalCheck_no_recheck(p, on_error) ==
  /\ UNCHANGED <<store, kind, data, target, verdict, ops>>
  /\ UNCHANGED conflicts
  /\ Goto(p, "create", <<>>)

\* create_reservation taking a failed query for an empty conflict set.
FinalCheck_fail_open(p, on_error) ==
  /\ UNCHANGED <<store, kind, data, target, verdict, ops>>
  /\ \E ok \in BOOLEAN :
       IF ~ok
         THEN /\ Goto(p, "create", <<"query_fail">>)
              /\ UNCHANGED conflicts
         ELSE \E ord \in QueryResults(p) :
                /\ conflicts' = [conflicts EXCEPT ![p] = ord]
                /\ IF ord # <<>>
                     THEN Finish(p, <<"query_ok">> \o on_error, NotionError, "Failed")
                     ELSE Goto(p, "create", <<"query_ok">>)

\* notion_service.create_reservation, the check right before the create
\* (notion_service.py 163-175): a failed query and a found conflict both
\* leave as NotionError (the except of line 195 wraps them again).
FinalCheck(p, on_error) ==
  /\ UNCHANGED <<store, kind, data, target, verdict, ops>>
  /\ \E ok \in BOOLEAN :
       IF ~ok
         THEN /\ Finish(p, <<"query_fail">> \o on_error, NotionError, "Failed")
              /\ UNCHANGED conflicts
         ELSE \E ord \in QueryResults(p) :
                /\ conflicts' = [conflicts EXCEPT ![p] = ord]
                /\ IF ord # <<>>
                     THEN Finish(p, <<"query_ok">> \o on_error, NotionError, "Failed")
                     ELSE Goto(p, "create", <<"query_ok">>)

\* A failed pages.create tried a second time.
PersistCreate_retry_once(p, on_error) ==
  /\ UNCHANGED <<kind, target, conflicts, verdict, ops>>
  /\ \E ok \in BOOLEAN :
       IF ~ok
         THEN /\ IF "create_fail" \in Range(log[p])
                   THEN Finish(p, <<"create_fail">> \o on_error, NotionError, "Failed")
                   ELSE Goto(p, "create", <<"create_fail">>)
              /\ UNCHANGED <<store, data>>
         ELSE /\ store' = Append(store, NewPage(build_reservation_properties(data[p])))
              /\ data' = [data EXCEPT ![p].page_id = Len(store')]
              /\ Finish(p, <<"create_ok", "confirm">>, NoExc, "Persisted")

\* The confirmation sent before pages.create is called.
PersistCreate_confirm_first(p, on_error) ==
  /\ UNCHANGED <<kind, target, conflicts, verdict, ops>>
  /\ \E ok \in BOOLEAN :
       IF ~ok
         THEN /\ Finish(p, <<"confirm", "create_fail">> \o on_error, NotionError, "Failed")
              /\ UNCHANGED <<store, data>>
         ELSE /\ store' = Append(store, NewPage(build_reservation_properties(data[p])))
              /\ data' = [data EXCEPT ![p].page_id = Len(store')]
              /\ Finish(p, <<"confirm", "create_ok">>, NoExc, "Persisted")

\* pages.create and the confirmation message (notion_service.py 177-193,
\* reservation_service.py 219-236, 252-270).  A failure of the confirmation
\* leaves through handle_exceptions as a plain Exception.
PersistCreate(p, on_error) ==
  /\ UNCHANGED <<kind, target, conflicts, verdict, ops>>
  /\ \E ok \in BOOLEAN, confirmed \in BOOLEAN :
       IF ~ok
         THEN /\ confirmed
              /\ Finish(p, <<"create_fail">> \o on_error, NotionError, "Failed")
              /\ UNCHANGED <<store, data>>
         ELSE /\ store' = Append(store, NewPage(build_reservation_properties(data[p])))
              /\ data' = [data EXCEPT ![p].page_id = Len(store')]
              /\ IF confirmed
                   THEN Finish(p, <<"create_ok", "confirm">>, NoExc, "Persisted")
                   ELSE Finish(p, <<"create_ok", "confirm_fail">> \o on_error,
                               handle_exceptions(Raise("SlackApiError", "slack_error")).exc, "Failed")

\* The edit writing a new page instead of updating the edited one.
PersistUpdate_as_create(p, on_error, on_success) ==
  /\ UNCHANGED <<kind, data, target, conflicts, verdict, ops>>
  /\ \E ok \in BOOLEAN :
       IF ~ok \/ target[p] \notin DOMAIN store
         THEN /\ ~ok
              /\ Finish(p, <<"update_fail">> \o on_error, NotionError, "Failed")
              /\ UNCHANGED store
         ELSE /\ store' = Append(store, NewPage(build_reservation_properties(data[p])))
              /\ Finish(p, <<"update_ok">> \o on_success, NoExc, "Persisted")

\* pages.update(page_id, properties) (notion_service.py 346-362).  The store
\* refuses the update of a page that does not exist.
PersistUpdate(p, on_error, on_success) ==
  /\ UNCHANGED <<kind, data, target, conflicts, verdict, ops>>
  /\ \E ok \in BOOLEAN :
       IF ~ok \/ target[p] \notin DOMAIN store
         THEN /\ ~ok
              /\ Finish(p, <<"update_fail">> \o on_error, NotionError, "Failed")
              /\ UNCHANGED store
         ELSE /\ store' = [store EXCEPT ![target[p]] =
                   UpdatedPage(store[target[p]], build_reservation_properties(data[p]))]
              /\ Finish(p, <<"update_ok">> \o on_success, NoExc, "Persisted")

\* ---------------------------------- app.handle_reservation_modal_submission
\* Entry and parse_modal_data (app.py 345-350); ValidationError -> ack(errors)
\* (454-458), any other exception -> ack() and the failure message (460-470).
CreateSubmit(p) ==
  /\ CanStart(p)
  /\ \E view \in Views :
       /\ Begin(p, "create", 0, InputVerdict(view, FALSE, 0))
       /\ AfterParse(p, parse_modal_data(view), <<"ack_errors">>,
                     <<"ack">> \o Notify("msg_request_failed"))

\* The handler's own conflict query and the acknowledgement (app.py 388-429).
CreateCheck(p) ==
  /\ pc[p] = "check" /\ kind[p] = "create"
  /\ HandlerCheck(p, "final_check")

\* create_reservation's own check; its NotionError reaches the handler's
\* inner except (app.py 444-452).
CreateFinalCheck(p) ==
  /\ pc[p] = "final_check" /\ kind[p] = "create"
  /\ FinalCheck(p, Notify("msg_create_failed"))

\* create_new_reservation_without_validation: create and confirm (app.py 434).
CreatePersist(p) ==
  /\ pc[p] = "create" /\ kind[p] = "create"
  /\ PersistCreate(p, Notify("msg_create_failed"))

\* ----------------------------------------- app.handle_edit_modal_submission
\* Entry, the page-id test and parse_modal_data (app.py 475-485, 567-583).
EditSubmit(p) ==
  /\ CanStart(p)
  /\ \E view \in Views, page_id \in PageIds :
       /\ Begin(p, "edit", page_id, InputVerdict(view, TRUE, page_id))
       /\ AfterParse(p, IF page_id = 0 THEN Raise(ValidationError, "no_page")
                                      ELSE set_page_id(parse_modal_data(view), page_id),
                     <<"ack_errors">>, <<"ack">> \o Notify("msg_request_failed"))

\* The conflict query excluding the edited page, and the acknowledgement
\* (app.py 488-531).
EditCheck(p) ==
  /\ pc[p] = "check" /\ kind[p] = "edit"
  /\ HandlerCheck(p, "update")

\* update_existing_reservation_without_validation and the success message
\* (app.py 535-565).
EditPersist(p) ==
  /\ pc[p] = "update" /\ kind[p] = "edit"
  /\ PersistUpdate(p, Notify("msg_update_failed"), Notify("msg_edit_done"))

\* ------------------------------------- app.handle_cancel_reservation_button
\* Entry: the acknowledgement and the page id of the button (app.py 635-642).
CancelClick(p) ==
  /\ CanStart(p)
  /\ \E page_id \in PageIds \ {0} :
       /\ Begin(p, "cancel", page_id, "valid")
       /\ data' = [data EXCEPT ![p] = NoData]
       /\ pc' = [pc EXCEPT ![p] = "retrieve"]
       /\ log' = [log EXCEPT ![p] = <<"ack">>]
       /\ raised' = [raised EXCEPT ![p] = NoExc]
       /\ outcome' = [outcome EXCEPT ![p] = "none"]

\* The cancel going on to the archive whatever the fetch and the parse gave.
CancelRetrieve_archive_anyway(p) ==
  /\ pc[p] = "retrieve" /\ kind[p] = "cancel"
  /\ UNCHANGED <<store, kind, data, target, conflicts, verdict, ops>>
  /\ \E ok \in BOOLEAN, parsed \in BOOLEAN :
       IF ~ok \/ target[p] \notin DOMAIN store
         THEN /\ ~ok /\ parsed
              /\ Goto(p, "archive", <<"retrieve_fail">>)
         ELSE IF ~parsed
           THEN Goto(p, "archive", <<"retrieve_ok", "page_parse_fail">>)
           ELSE Goto(p, "archive", <<"retrieve_ok", "page_parse_ok">>)

\* pages.retrieve and parse_reservation_for_modal (app.py 645-646, 676-681).
\* The parse raises on a page whose properties are not shaped as the ones the
\* program writes (reservation_service.py 632-634).
CancelRetrieve(p) ==
  /\ pc[p] = "retrieve" /\ kind[p] = "cancel"
  /\ UNCHANGED <<store, kind, data, target, conflicts, verdict, ops>>
  /\ \E ok \in BOOLEAN, parsed \in BOOLEAN :
       IF ~ok \/ target[p] \notin DOMAIN store
         THEN /\ ~ok /\ parsed
              /\ Finish(p, <<"retrieve_fail">> \o Notify("msg_cancel_failed"),
                        NotionError, "Failed")
         ELSE IF ~parsed
           THEN Finish(p, <<"retrieve_ok", "page_parse_fail">> \o Notify("msg_cancel_failed"),
                       handle_exceptions(Raise(ValidationError, "load_failed")).exc, "Failed")
           ELSE Goto(p, "archive", <<"retrieve_ok", "page_parse_ok">>)

\* pages.update(archived=True) and the messages (app.py 649-681).  The
\* success message is sent inside the handler's try: when it fails the
\* except branch sends the failure message.
CancelArchive(p) ==
  /\ pc[p] = "archive" /\ kind[p] = "cancel"
  /\ UNCHANGED <<kind, data, target, conflicts, verdict, ops>>
  /\ \E ok \in BOOLEAN, sent \in BOOLEAN :
       IF ~ok \/ target[p] \notin DOMAIN store
         THEN /\ ~ok /\ sent
              /\ Finish(p, <<"archive_fail">> \o Notify("msg_cancel_failed"),
                        NotionError, "Failed")
              /\ UNCHANGED store
         ELSE /\ store' = [store EXCEPT ![target[p]] = ArchivedPage(store[target[p]])]
              /\ IF sent
                   THEN Finish(p, <<"archive_ok", "msg_cancel_done">>, NoExc, "Cancelled")
                   ELSE Finish(p, <<"archive_ok", "msg_cancel_done_fail">>
                                    \o Notify("msg_cancel_failed"),
                               "SlackApiError", "Failed")

\* --------------------------- ReservationService.create_new_reservation(view)
\* Entry and parse_modal_data (reservation_service.py 191-195).
SvcCreateCall(p) ==
  /\ CanStart(p)
  /\ \E view \in Views :
       /\ Begin(p, "svc_create", 0, InputVerdict(view, FALSE, 0))
       /\ AfterParse(p, handle_exceptions(parse_modal_data(view)), <<>>, <<>>)

SvcCreateCheck(p) ==
  /\ pc[p] = "check" /\ kind[p] = "svc_create"
  /\ ServiceCheck(p, "final_check")

SvcCreateFinalCheck(p) ==
  /\ pc[p] = "final_check" /\ kind[p] = "svc_create"
  /\ FinalCheck(p, <<>>)

SvcCreatePersist(p) ==
  /\ pc[p] = "create" /\ kind[p] = "svc_create"
  /\ PersistCreate(p, <<>>)

\* ------------- ReservationService.update_existing_reservation(view, page_id)
\* Entry and parse_modal_data (reservation_service.py 647-653); the page id
\* is not tested here.
SvcEditCall(p) ==
  /\ CanStart(p)
  /\ \E view \in Views, page_id \in PageIds :
       /\ Begin(p, "svc_edit", page_id, InputVerdict(view, FALSE, page_id))
       /\ AfterParse(p, set_page_id(handle_exceptions(parse_modal_data(view)), page_id),
                     <<>>, <<>>)

SvcEditCheck(p) ==
  /\ pc[p] = "check" /\ kind[p] = "svc_edit"
  /\ ServiceCheck(p, "update")

SvcEditPersist(p) ==
  /\ pc[p] = "update" /\ kind[p] = "svc_edit"
  /\ PersistUpdate(p, <<>>, <<>>)

\* ------------------------------------------------------------ specifications
\* A new submission arrives at worker p.
Start(p) ==
  \/ CreateSubmit(p)
  \/ EditSubmit(p)
  \/ CancelClick(p)

\* Worker p takes the next step of the handler it is running.
Run(p) ==
  \/ CreateCheck(p)
  \/ CreateFinalCheck(p)
  \/ CreatePersist(p)
  \/ EditCheck(p)
  \/ EditPersist(p)
  \/ CancelRetrieve(p)
  \/ CancelArchive(p)

\* Handlers run concurrently on the workers of the pool.
Next == \E p \in Procs : (ops < MaxOps /\ Start(p)) \/ Run(p)

Spec == Init /\ [][Next]_vars

\* The two modal handlers alone on the workers of the pool.
ModalStart(p) ==
  \/ CreateSubmit(p)
  \/ EditSubmit(p)

ModalRun(p) ==
  \/ CreateCheck(p)
  \/ CreateFinalCheck(p)
  \/ CreatePersist(p)
  \/ EditCheck(p)
  \/ EditPersist(p)

\* Each worker takes one submission and runs it to its end, next to the
\* submission of the other worker.
NextLive == \E p \in Procs : (pc[p] = "idle" /\ ModalStart(p)) \/ ModalRun(p)

\* A handler that was started runs on: the listener's worker thread is never
\* suspended for good, and each store call and each chat call it makes
\* returns or raises.
SpecLive == Init /\ [][NextLive]_vars /\ \A p \in Procs : WF_vars(ModalRun(p))

\* Submissions run one at a time: a single worker takes each submission to
\* its end before the next one starts.
NextSeq == (ops < MaxSeqOps /\ Start("w1")) \/ Run("w1")

SpecSeq == Init /\ [][NextSeq]_vars

\* The service-layer entry points called concurrently.
SvcStart(p) ==
  \/ SvcCreateCall(p)
  \/ SvcEditCall(p)

SvcRun(p) ==
  \/ SvcCreateCheck(p)
  \/ SvcCreateFinalCheck(p)
  \/ SvcCreatePersist(p)
  \/ SvcEditCheck(p)
  \/ SvcEditPersist(p)

NextSvc == \E p \in Procs : (ops < MaxOps /\ SvcStart(p)) \/ SvcRun(p)

SpecSvc == Init /\ [][NextSvc]_vars

\* --------------------------------------------------- function-level runs
\* parse_modal_data and the handlers' answer to its ValidationError, applied
\* to one form.
InitParse ==
  /\ store = <<>>
  /\ InitWorkers
  /\ input \in Forms
  /\ result = NoResult

\* The form is submitted: the parse result, and for a ValidationError the
\* acknowledgement the handler answers with.
SubmitForm ==
  /\ result = NoResult
  /\ result' = LET r == parse_modal_data(input) IN
       [exc |-> r.exc, msg |-> r.msg, data |-> r.data,
        ack |-> IF r.exc = ValidationError
                  THEN ack_errors(r)
                  ELSE [response_action |-> "none", errors |-> <<>>]]
  /\ UNCHANGED input
  /\ UNCHANGED hvars

NextParse == SubmitForm

SpecParse == InitParse /\ [][NextParse]_vars

\* A create with the picked date and times, then the pre-fill of the edit
\* modal from the page the store returns.
InitRoundTrip ==
  /\ store = <<>>
  /\ InitWorkers
  /\ input \in PickerInputs
  /\ result = NoResult

CreateThenPrefill ==
  /\ result = NoResult
  /\ result' = parse_reservation_for_modal(
                  retrieved_page(build_date_properties(parse_modal_datetimes(input)),
                                 input.off))
  /\ UNCHANGED input
  /\ UNCHANGED hvars

NextRoundTrip == CreateThenPrefill

SpecRoundTrip == InitRoundTrip /\ [][NextRoundTrip]_vars

\* ------------------------------------------- messages after a failure
\* A text is a sequence of pieces; f"{a}: {b}" is a \o b.  The pieces below
\* are the texts of the exceptions raised by the Notion and Slack clients.
StoreFailures == {"APIResponseError", "RequestTimeoutError"}
SlackFailures == {"channel_not_found"}
InternalTexts == StoreFailures \cup SlackFailures

\* An exception with its text, str(e).
Exc(exc_type, text) == [exc |-> exc_type, text |-> text]

\* The except clause of the Notion read functions (notion_service.py 70-72,
\* 251-253, 298-300): NotionError(f"Notion DB 조회에 실패했습니다: {e}").
notion_read(outcome_of_store) ==
  IF outcome_of_store = "ok" THEN Exc(NoExc, <<>>)
  ELSE Exc(NotionError, <<"notion_query_failed">> \o <<outcome_of_store>>)

\* slack_service.send_reservation_status: the SlackApiError of the send is
\* raised again when the plain-text fallback fails as well.
send_reservation_status(outcome_of_slack) ==
  IF outcome_of_slack = "ok" THEN Exc(NoExc, <<>>)
  ELSE Exc("SlackApiError", <<outcome_of_slack>>)

\* ErrorHandler.handle_slack_command_error: the message sent to the user.
handle_slack_command_error(error) ==
  IF error.exc = NotionError THEN <<"RESERVATION_QUERY_FAILED">> \o error.text
  ELSE IF error.exc \in {ValidationError, ConflictError} THEN error.text
  ELSE <<"RESERVATION_PROCESSING_FAILED">> \o error.text

\* ErrorHandler.handle_modal_error: the text of the error modal.
handle_modal_error(error, context) == <<context, "error_occurred">> \o error.text

\* DateParser.parse_query_date on the command texts of the model: a date, or
\* ValueError for a text that is no date.
parse_query_date(text) ==
  IF text \in {"", "today", "tomorrow", "2024-01-15"} THEN Exc(NoExc, <<>>)
  ELSE Exc("ValueError", <<"invalid_date_format">>)

\* app.handle_query_command: the messages the user is sent.
handle_query_command(in) ==
  LET read == notion_read(in.store)
      sent == send_reservation_status(in.slack)
      parsed == parse_query_date(in.text)
  IN  IF in.text # "weekly" /\ parsed.exc # NoExc THEN << <<"INVALID_DATE_FORMAT">> >>
      ELSE IF read.exc # NoExc THEN <<handle_slack_command_error(read)>>
      ELSE IF sent.exc # NoExc THEN <<handle_slack_command_error(sent)>>
      ELSE << <<"reservation_status">> >>

\* app.handle_reservation_command: views_open, and the error modal when it
\* fails (app.py 279-293).
handle_reservation_command(in) ==
  IF in.slack = "ok" THEN <<>>
  ELSE <<handle_modal_error(Exc("SlackApiError", <<in.slack>>), "open_reservation_modal")>>

\* The modal handlers when their conflict query fails: the NotionError
\* reaches the except of app.py 460 / 573, which sends fixed copy.
handle_modal_submission(in) ==
  IF notion_read(in.store).exc # NoExc THEN << <<"request_failed">> >>
  ELSE <<>>

MessageHandlers == {"query_command", "reservation_command", "create_submit", "edit_submit"}
QueryTexts == {"", "today", "tomorrow", "weekly", "2024-01-15", "someday"}

\* An inbound command or submission with the outcome of the store read and
\* of the Slack send it leads to.
MessageInputs ==
  [handler : MessageHandlers, text : QueryTexts,
   store : {"ok"} \cup StoreFailures, slack : {"ok"} \cup SlackFailures]

InitMessages ==
  /\ store = <<>>
  /\ InitWorkers
  /\ input \in MessageInputs
  /\ result = NoResult

\* The handler runs: result holds the messages shown to the user.
HandleInbound ==
  /\ result = NoResult
  /\ result' = [exc |-> NoExc,
                messages |-> CASE input.handler = "query_command" -> handle_query_command(input)
                               [] input.handler = "reservation_command" ->
                                    handle_reservation_command(input)
                               [] OTHER -> handle_modal_submission(input)]
  /\ UNCHANGED input
  /\ UNCHANGED hvars

NextMessages == HandleInbound

SpecMessages == InitMessages /\ [][NextMessages]_vars

\* ------------------------------------------- app.handle_app_home_opened
\* The users whose home tab is opened; each event starts its own thread.
Users == {"U1", "U2"}
MainThread == "MainThread"
ThreadOf(u) == "Thread-" \o u

\* The outcomes of the calls the background task makes outside the process:
\* the store read, views.publish of the full view, views.publish of the
\* fallback view.
HomeOutcomes ==
  [read : {"returns", "raises", "exceeds"}, publish : {"ok", "raises"},
   fallback : {"ok", "raises"}]

\* signal.signal(SIGALRM, handler): outside the main thread of the main
\* interpreter it raises ValueError.
signal_signal(th) == IF th = MainThread THEN NoExc ELSE "ValueError"

\* Step 1 of update_home_tab_async (app.py 160-192) run in thread th: the
\* alarm, the store read, and what the task goes on with.  An exception of
\* the read gives the empty list (165-169), TimeoutError and OSError too
\* (186-189); any other exception of the alarm set-up leaves to the except of
\* line 216.
read_with_timeout(th, read_outcome) ==
  IF signal_signal(th) # NoExc
    THEN [next |-> "fallback", events |-> <<"signal_raise">>, reservations |-> "none"]
  ELSE IF read_outcome = "returns"
    THEN [next |-> "publish", events |-> <<"alarm_on", "read_ok", "alarm_off">>,
          reservations |-> "today"]
  ELSE IF read_outcome = "raises"
    THEN [next |-> "publish", events |-> <<"alarm_on", "read_raise", "alarm_off">>,
          reservations |-> "empty"]
  ELSE [next |-> "publish", events |-> <<"alarm_on", "read_timeout">>,
        reservations |-> "empty"]

NoTask == [pc |-> "idle", log |-> <<>>, reservations |-> "none", view |-> "none"]

InitHome ==
  /\ store = <<>>
  /\ InitWorkers
  /\ input \in [Users -> HomeOutcomes]
  /\ result = [u \in Users |-> NoTask]

\* The event arrives: ack(), then the background thread is started
\* (app.py 148, 266-267).
HomeOpened(u) ==
  /\ result[u].pc = "idle"
  /\ result' = [result EXCEPT ![u].pc = "read", ![u].log = <<"ack", "thread_start">>]
  /\ UNCHANGED input
  /\ UNCHANGED hvars

\* The background thread sets the alarm and reads the store (app.py 160-192).
HomeRead(u) ==
  /\ result[u].pc = "read"
  /\ LET r == read_with_timeout(ThreadOf(u), input[u].read) IN
       result' = [result EXCEPT ![u].pc = r.next,
                                ![u].log = result[u].log \o r.events,
                                ![u].reservations = r.reservations]
  /\ UNCHANGED input
  /\ UNCHANGED hvars

\* views.publish of the view built from the reservations (app.py 197-214),
\* and of the fallback view after any exception (216-263).
HomePublish(u) ==
  /\ result[u].pc \in {"publish", "fallback"}
  /\ result' =
       IF result[u].pc = "publish"
         THEN IF input[u].publish = "ok"
                THEN [result EXCEPT ![u].pc = "done", ![u].view = "full",
                                    ![u].log = result[u].log \o <<"publish_ok">>]
                ELSE [result EXCEPT ![u].pc = "fallback",
                                    ![u].log = result[u].log \o <<"publish_raise">>]
         ELSE IF input[u].fallback = "ok"
                THEN [result EXCEPT ![u].pc = "done", ![u].view = "fallback",
                                    ![u].log = result[u].log \o <<"fallback_ok">>]
                ELSE [result EXCEPT ![u].pc = "done",
                                    ![u].log = result[u].log \o <<"fallback_raise">>]
  /\ UNCHANGED input
  /\ UNCHANGED hvars

\* The steps of the background thread of user u.
HomeTask(u) == HomeRead(u) \/ HomePublish(u)

NextHome == \E u \in Users : HomeOpened(u) \/ HomeTask(u)

\* A started thread keeps running until its function returns.
SpecHome == InitHome /\ [][NextHome]_vars /\ \A u \in Users : WF_vars(HomeTask(u))

\* ------------------------------ NotionService.parse_conflicting_reservations
\* Longest list of conflicts in the function-level runs.
MaxConflicts == 3

\* A page as the conflict query returns it.  Shape "ok" has every property;
\* "no_properties" lacks the properties the parser looks for; in
\* "title_no_text" the first title element has no text, in "bad_start" the
\* start date is not an ISO date.
ConflictPages ==
  {[shape |-> "ok", title |-> t, team |-> "System", start |-> s, end |-> s + 1] :
     t \in {"A", "B"}, s \in {0}}
  \cup {[shape |-> sh, title |-> "C", team |-> "System", start |-> 1, end |-> 2] :
          sh \in {"no_properties", "title_no_text", "bad_start"}}

\* The record appended when parsing a conflict raised (notion_service.py 133-142).
ParseFailed ==
  [title |-> "parse_failed", team_name |-> "no_info", start_time |-> "no_info",
   end_time |-> "no_info"]

\* One pass of the loop body (notion_service.py 86-142): the defaults stand
\* for a property that is absent, an exception gives the ParseFailed record.
parse_conflict(c) ==
  IF c.shape \in {"title_no_text", "bad_start"} THEN ParseFailed
  ELSE IF c.shape = "no_properties"
    THEN [title |-> "no_title", team_name |-> "no_team", start_time |-> "no_time",
          end_time |-> "no_time"]
  ELSE [title |-> c.title, team_name |-> c.team, start_time |-> c.start,
        end_time |-> c.end]

\* The loop body dropping a conflict whose parsing raised.
append_parsed_skipping(parsed_conflicts, c) ==
  IF parse_conflict(c) = ParseFailed
    THEN parsed_conflicts
    ELSE Append(parsed_conflicts, parse_conflict(c))

\* The loop body: one append per conflict, in the try or in the except
\* (notion_service.py 124-142).
append_parsed(parsed_conflicts, c) == Append(parsed_conflicts, parse_conflict(c))

\* The for loop of parse_conflicting_reservations over the conflicts left.
RECURSIVE parse_loop(_, _)
parse_loop(conflict_list, parsed_conflicts) ==
  IF conflict_list = <<>> THEN parsed_conflicts
  ELSE parse_loop(Tail(conflict_list), append_parsed(parsed_conflicts, Head(conflict_list)))

\* NotionService.parse_conflicting_reservations.
parse_conflicting_reservations(conflict_list) == parse_loop(conflict_list, <<>>)

\* The conflict branch of create_new_reservation and
\* update_existing_reservation (reservation_service.py 211-216, 663-668).
raise_if_conflicts(conflict_list) ==
  IF conflict_list # <<>>
    THEN [exc |-> ConflictError, msg |-> "overlap",
          conflicting_reservations |-> parse_conflicting_reservations(conflict_list)]
    ELSE [exc |-> NoExc, msg |-> "", conflicting_reservations |-> <<>>]

\* The lists a conflict query can return.
ConflictLists ==
  UNION {[1..n -> ConflictPages] : n \in 0..MaxConflicts}

InitConflicts ==
  /\ store = <<>>
  /\ InitWorkers
  /\ input \in ConflictLists
  /\ result = NoResult

\* The conflict query returned the list input.
ConflictsFound ==
  /\ result = NoResult
  /\ result' = raise_if_conflicts(input)
  /\ UNCHANGED input
  /\ UNCHANGED hvars

NextConflicts == ConflictsFound

SpecConflicts == InitConflicts /\ [][NextConflicts]_vars

\* ------------------------------- NotionService.get_reservations_by_date
\* Longest store in the function-level runs of the date query.
MaxPages == 2

\* Timezones the server can run in: UTC and KST.
LocalOffsets == {0, KST}

\* Stored starts (KST readings) at the two ends of day 1 and just outside
\* it, as the day is cut in KST and as it is cut in UTC.
BoundaryStarts ==
  {SlotsPerDay - 1, SlotsPerDay, 2 * SlotsPerDay - 1, 2 * SlotsPerDay,
   SlotsPerDay + KST - 1, SlotsPerDay + KST, 2 * SlotsPerDay + KST - 1,
   2 * SlotsPerDay + KST}

DatedPages == [start : BoundaryStarts, archived : BOOLEAN]

\* A naive datetime: noon of day d.
Noon(d) == [wall |-> d * SlotsPerDay + SlotsPerDay \div 2, off |-> Naive]

\* A call of get_reservations_by_date: the pages of the database, the
\* target date (None, or a date), the clock and the timezone of the server.
DateQueries ==
  [pages : UNION {[1..n -> DatedPages] : n \in 0..MaxPages},
   target_date : {NoDate} \cup {Noon(d) : d \in 1..2},
   now : {Noon(d) : d \in 1..2},
   local_tz : LocalOffsets]

InitByDate ==
  /\ store = <<>>
  /\ InitWorkers
  /\ input \in DateQueries
  /\ result = NoResult

\* The call returns: result holds every list the store may answer with.
QueryByDate ==
  /\ result = NoResult
  /\ result' = [exc |-> NoExc,
                lists |-> get_reservations_by_date(input.pages, input.target_date,
                                                   input.now, input.local_tz)]
  /\ UNCHANGED input
  /\ UNCHANGED hvars

NextByDate == QueryByDate

SpecByDate == InitByDate /\ [][NextByDate]_vars

\* --------------------------------------- the room step of parse_modal_data
\* Room registries: the rooms in the order of the dict, each marked default
\* or not; none, one or several rooms may be marked.
RegistryOrders == {<<>>, <<"room_1">>, <<"room_2">>, <<"room_1", "room_2">>,
                   <<"room_2", "room_1">>}

Registries ==
  UNION {{[order |-> o,
           rooms |-> [r \in Range(o) |-> [name |-> r, is_default |-> flags[r]]]] :
            flags \in [Range(o) -> BOOLEAN]} : o \in RegistryOrders}

\* What room_select carries: no selected option, a room id, an empty value.
SelectedRooms == {NoneVal, "room_1", "room_2", "room_x", ""}

RoomInputs == [registry : Registries, selected_room : SelectedRooms]

InitRoom ==
  /\ store = <<>>
  /\ InitWorkers
  /\ input \in RoomInputs
  /\ result = NoResult

\* Lines 55-59 of parse_modal_data on one form and one registry.
ResolveRoom ==
  /\ result = NoResult
  /\ result' =
       LET room_id == room_id_of(input.selected_room, input.registry.rooms,
                                 input.registry.order)
       IN  IF room_rejected(room_id, input.registry.rooms)
             THEN [exc |-> ValidationError, msg |-> "room", room_id |-> room_id,
                   room_name |-> ""]
             ELSE [exc |-> NoExc, msg |-> "", room_id |-> room_id,
                   room_name |-> input.registry.rooms[room_id].name]
  /\ UNCHANGED input
  /\ UNCHANGED hvars

NextRoom == ResolveRoom

SpecRoom == InitRoom /\ [][NextRoom]_vars

\* ---------------------------------------- app.handle_reservation_action
\* The cancel entry of a reservation's action menu.  Entry: the
\* acknowledgement and the page id split off the option value "cancel_<id>"
\* (app.py 746-757).
ActionCancelClick(p) ==
  /\ CanStart(p)
  /\ \E page_id \in PageIds \ {0} :
       /\ Begin(p, "action_cancel", page_id, "valid")
       /\ data' = [data EXCEPT ![p] = NoData]
       /\ pc' = [pc EXCEPT ![p] = "retrieve"]
       /\ log' = [log EXCEPT ![p] = <<"ack">>]
       /\ raised' = [raised EXCEPT ![p] = NoExc]
       /\ outcome' = [outcome EXCEPT ![p] = "none"]

\* pages.retrieve and parse_reservation_for_modal (app.py 800-801, 827-832).
ActionCancelRetrieve(p) ==
  /\ pc[p] = "retrieve" /\ kind[p] = "action_cancel"
  /\ UNCHANGED <<store, kind, data, target, conflicts, verdict, ops>>
  /\ \E ok \in BOOLEAN, parsed \in BOOLEAN :
       IF ~ok \/ target[p] \notin DOMAIN store
         THEN /\ ~ok /\ parsed
              /\ Finish(p, <<"retrieve_fail">> \o Notify("msg_cancel_failed"),
                        NotionError, "Failed")
         ELSE IF ~parsed
           THEN Finish(p, <<"retrieve_ok", "page_parse_fail">> \o Notify("msg_cancel_failed"),
                       handle_exceptions(Raise(ValidationError, "load_failed")).exc, "Failed")
           ELSE Goto(p, "archive", <<"retrieve_ok", "page_parse_ok">>)

\* pages.update(archived=True), the success message and the refresh of the
\* home tab (app.py 804-832).  All three sit in one try: when the message or
\* the refresh raises, the except branch sends the failure message.
ActionCancelArchive(p) ==
  /\ pc[p] = "archive" /\ kind[p] = "action_cancel"
  /\ UNCHANGED <<kind, data, target, conflicts, verdict, ops>>
  /\ \E ok \in BOOLEAN, sent \in BOOLEAN, refreshed \in BOOLEAN :
       IF ~ok \/ target[p] \notin DOMAIN store
         THEN /\ ~ok /\ sent /\ refreshed
              /\ Finish(p, <<"archive_fail">> \o Notify("msg_cancel_failed"),
                        NotionError, "Failed")
              /\ UNCHANGED store
         ELSE /\ store' = [store EXCEPT ![target[p]] = ArchivedPage(store[target[p]])]
              /\ CASE sent /\ refreshed ->
                        Finish(p, <<"archive_ok", "msg_cancel_done", "home_ok">>,
                               NoExc, "Cancelled")
                   [] sent /\ ~refreshed ->
                        Finish(p, <<"archive_ok", "msg_cancel_done", "home_fail">>
                                    \o Notify("msg_cancel_failed"),
                               "SlackApiError", "Failed")
                   [] OTHER ->
                        /\ refreshed
                        /\ Finish(p, <<"archive_ok", "msg_cancel_done_fail">>
                                       \o Notify("msg_cancel_failed"),
                                  "SlackApiError", "Failed")

\* The two cancel surfaces, message button and action menu, on the workers of
\* the pool.
CancelStart(p) ==
  \/ CancelClick(p)
  \/ ActionCancelClick(p)

CancelRun(p) ==
  \/ CancelRetrieve(p)
  \/ CancelArchive(p)
  \/ ActionCancelRetrieve(p)
  \/ ActionCancelArchive(p)

NextCancel == \E p \in Procs : (ops < MaxOps /\ CancelStart(p)) \/ CancelRun(p)

SpecCancel == Init /\ [][NextCancel]_vars

\* ------------------- one stored reservation on the two display surfaces
\* parse_conflicting_reservations, the start and end of one conflict
\* (notion_service.py 104-121): the instants are formatted in the offset
\* they arrive in.
parse_conflict_times(page) ==
  LET start_dt == fromisoformat(page.start)
      end_dt   == fromisoformat(page.end)
  IN  [start_time |-> strftime_time(start_dt), end_time |-> strftime_time(end_dt),
       start_date |-> strftime_date(start_dt)]

\* A reservation created from the pickers, and the page the store returns for
\* it, to the conflict query and to pages.retrieve alike.
InitDisplay ==
  /\ store = <<>>
  /\ InitWorkers
  /\ input \in PickerInputs
  /\ result = NoResult

\* The page shown as a conflict and as the pre-fill of the edit modal.
ShowStored ==
  /\ result = NoResult
  /\ LET page == retrieved_page(build_date_properties(parse_modal_datetimes(input)),
                                input.off)
     IN  result' = [conflict |-> parse_conflict_times(page),
                    prefill  |-> parse_reservation_for_modal(page)]
  /\ UNCHANGED input
  /\ UNCHANGED hvars

NextDisplay == ShowStored

SpecDisplay == InitDisplay /\ [][NextDisplay]_vars

TypeOK ==
  /\ ops \in 0..MaxSeqOps
  /\ \A p \in Procs : pc[p] \in {"idle", "check", "final_check", "create", "update",
                                 "retrieve", "archive", "done"}

\* ------------------------------------------------------------------ claims
\* The overlap predicate of two ranges [s1,e1) and [s2,e2).
Overlap(s1, e1, s2, e2) == s1 < e2 /\ e1 > s2

\* The two half-open ranges have a slot in common.
SharesSlot(s1, e1, s2, e2) == \E t \in Slots : s1 <= t /\ t < e1 /\ s2 <= t /\ t < e2

\* The ranges only touch: one ends where the other starts.
Touches(s1, e1, s2, e2) == e1 = s2 \/ e2 = s1

\* Page i is a live reservation of the room of request d.
LiveInRoom(st, i, d) == ~st[i].archived /\ st[i].room = d.room_name

OverlapsPage(st, i, d) == Overlap(d.start_dt, d.end_dt, st[i].start, st[i].end)

\* No live reservation of the request's room, other than page excl, overlaps it.
FreeSlot(st, d, excl) ==
  \A i \in DOMAIN st : (i # excl /\ LiveInRoom(st, i, d)) => ~OverlapsPage(st, i, d)

\* Two live reservations of one room overlap.
OverlappingPair(st, i, j) ==
  /\ i # j /\ ~st[i].archived /\ ~st[j].archived /\ st[i].room = st[j].room
  /\ Overlap(st[i].start, st[i].end, st[j].start, st[j].end)

\* Worker p's step is a conflict query that returned / that failed.
QueryStep(p) == pc[p] \in {"check", "final_check"} /\ pc'[p] # pc[p]
QueryReturned(p) == QueryStep(p) /\ log'[p][Len(log[p]) + 1] = "query_ok"
QueryFailed(p) == QueryStep(p) /\ log'[p][Len(log[p]) + 1] = "query_fail"

WriteEvents == {"create_ok", "create_fail", "update_ok", "update_fail"}
StoreEvents == WriteEvents \cup {"query_ok", "query_fail", "retrieve_ok", "retrieve_fail",
                                 "archive_ok", "archive_fail"}

\* C1: when submissions run one at a time from a store without overlaps, no
\* two live reservations of one room ever overlap.
C1_NoOverlap ==
  \A i, j \in DOMAIN store : ~OverlappingPair(store, i, j)

C1_Witness ==
  /\ outcome["w1"] = "Persisted"
  /\ \E i, j \in DOMAIN store :
       /\ i # j /\ ~store[i].archived /\ ~store[j].archived
       /\ store[i].room = store[j].room /\ store[i].end = store[j].start

\* C2: with concurrent creates every conflict check that lets a create go on
\* saw a free slot, and still two overlapping creates can both be persisted.
C2_ChecksPassOnFreeSlot ==
  [][\A p \in Procs :
       (kind[p] = "create" /\ QueryReturned(p) /\ pc'[p] # "done")
         => FreeSlot(store, data[p], 0)]_vars

C2_Witness ==
  /\ \A p \in Procs :
       /\ kind[p] = "create" /\ outcome[p] = "Persisted"
       /\ log[p] = <<"parse_ok", "query_ok", "ack", "query_ok", "create_ok", "confirm">>
  /\ OverlappingPair(store, Len(store) - 1, Len(store))

C4_SameRoomOnly ==
  [][\A p \in Procs : QueryReturned(p) =>
       \A i \in Range(conflicts'[p]) : store[i].room = data[p].room_name]_vars

C4_Witness ==
  \E p \in Procs :
    /\ kind[p] = "create" /\ outcome[p] = "Persisted"
    /\ \E i \in DOMAIN store :
         /\ ~store[i].archived /\ ~store[Len(store)].archived
         /\ store[i].room # store[Len(store)].room
         /\ store[Len(store)].room = data[p].room_name
         /\ store[i].start = store[Len(store)].start
         /\ store[i].end = store[Len(store)].end

\* C5: the conflict check of an edit never returns the edited page, and an
\* edit that overlaps no other live reservation goes on to the update.
C5_EditExcludesSelf ==
  [][\A p \in Procs : (kind[p] = "edit" /\ QueryReturned(p)) =>
       /\ target[p] \notin Range(conflicts'[p])
       /\ FreeSlot(store, data[p], target[p]) => pc'[p] = "update"]_vars

\* Two edits of one live page wait at the update: one keeps the stored range,
\* the other moves its start so that the new range overlaps the stored one.
C5_Witness ==
  /\ \A p \in Procs :
       /\ kind[p] = "edit" /\ pc[p] = "update" /\ target[p] \in DOMAIN store
       /\ LiveInRoom(store, target[p], data[p])
       /\ OverlapsPage(store, target[p], data[p])
  /\ data["w1"].start_dt = store[target["w1"]].start
  /\ data["w1"].end_dt = store[target["w1"]].end
  /\ data["w2"].start_dt # store[target["w2"]].start

\* C6: a create or edit submission whose input breaks a form rule ends with a
\* validation error and makes no store call.
C6_InvalidNoStoreCall ==
  \A p \in Procs : (kind[p] \in {"create", "edit"} /\ verdict[p] # "valid") =>
    /\ pc[p] = "done"
    /\ Range(log[p]) \cap StoreEvents = {}
    /\ verdict[p] = "invalid" =>
         /\ raised[p] = ValidationError
         /\ outcome[p] = "RejectedValidation"
         /\ log[p] = <<"parse_raise", "ack_errors">>

C6_Witness ==
  /\ kind["w1"] = "create" /\ verdict["w1"] = "invalid"
  /\ outcome["w1"] = "RejectedValidation"
  /\ kind["w2"] = "edit" /\ target["w2"] = 0 /\ verdict["w2"] = "invalid"
  /\ outcome["w2"] = "RejectedValidation"

\* C7: a conflict query that returns conflicts ends the submission without a
\* create or update call and leaves the store unchanged.
C7_ConflictRejects ==
  [][\A p \in Procs : (QueryReturned(p) /\ conflicts'[p] # <<>>) =>
       /\ pc'[p] = "done"
       /\ outcome'[p] \in {"RejectedConflict", "Failed"}
       /\ Range(log'[p]) \cap WriteEvents = {}
       /\ store' = store]_vars

C7_Witness ==
  \E p \in Procs :
    /\ kind[p] = "edit" /\ outcome[p] = "RejectedConflict"
    /\ conflicts[p] # <<>> /\ target[p] \in DOMAIN store
    /\ Range(log[p]) \cap WriteEvents = {}

\* C8: a conflict query that fails ends the submission as failed, with no
\* create and no update call.
C8_FailClosed ==
  [][\A p \in Procs : QueryFailed(p) =>
       /\ pc'[p] = "done"
       /\ outcome'[p] = "Failed" /\ raised'[p] = NotionError
       /\ Range(log'[p]) \cap WriteEvents = {}
       /\ store' = store]_vars

C8_Witness ==
  \E p \in Procs :
    /\ kind[p] = "create"
    /\ log[p] = <<"parse_ok", "query_ok", "ack", "query_fail", "msg_create_failed">>
    /\ outcome[p] = "Failed"

\* C9: a request refused because an overlapping reservation was found ends
\* with a ConflictError, at whichever conflict check the overlap was found.
C9_ConflictIsConflictError ==
  \A p \in Procs : (pc[p] = "done" /\ conflicts[p] # <<>>) => raised[p] = ConflictError

\* C10: every outcome of the service-layer create and edit is success,
\* ValidationError, ConflictError or NotionError.
C10_FourOutcomes ==
  \A p \in Procs : (pc[p] = "done" /\ kind[p] \in {"svc_create", "svc_edit"}) =>
    raised[p] \in {NoExc, ValidationError, ConflictError, NotionError}

\* The form rules in the order of the specification, read off the form.
TitleBroken(v) == v.title \in {MissingKey, NoneVal, "", " "}
RoomBroken(v) ==
  /\ v.room \notin DOMAIN MEETING_ROOMS
  /\ ~(v.room = NoneVal /\ \E r \in DOMAIN MEETING_ROOMS : MEETING_ROOMS[r].is_default)
TimeBroken(v) == v.start_time = BadTime \/ v.end_time = BadTime
OrderBroken(v) == ~TimeBroken(v) /\ v.start_time >= v.end_time
TeamBroken(v) == v.team \notin DOMAIN TEAMS

\* Rule i of title, room, date/time parsing, start < end, team is broken.
Broken(v, i) ==
  CASE i = 1 -> TitleBroken(v)
    [] i = 2 -> RoomBroken(v)
    [] i = 3 -> TimeBroken(v)
    [] i = 4 -> OrderBroken(v)
    [] OTHER -> TeamBroken(v)

BrokenRules(v) == {i \in 1..5 : Broken(v, i)}

EarliestBroken(v) == CHOOSE i \in BrokenRules(v) : \A j \in BrokenRules(v) : i <= j

\* The error rule i reports for form v: the rule's own message, or the
\* generic one when the field cannot be read at all.
RuleError(v, i) ==
  CASE i = 1 -> IF v.title = MissingKey THEN "generic" ELSE "title"
    [] i = 2 -> IF v.room = MissingKey THEN "generic" ELSE "room"
    [] i = 3 -> "generic"
    [] i = 4 -> "time_order"
    [] OTHER -> IF v.team = MissingKey THEN "generic"
                ELSE IF v.team = NoneVal THEN "team_missing" ELSE "team_invalid"

Parsed == result # NoResult

\* C11: for every form that breaks one or several rules, the reported error
\* is the one of the earliest broken rule in the order title, room, date/time
\* parsing, start < end, team.
C11_EarliestRuleReported ==
  (Parsed /\ input.shape = "ok" /\ BrokenRules(input) # {}) =>
    /\ result.exc = ValidationError
    /\ result.msg = RuleError(input, EarliestBroken(input))

\* An empty title together with an invalid room (and more) reports the title.
C11_Witness ==
  /\ Parsed /\ input.shape = "ok"
  /\ Cardinality(BrokenRules(input)) = 4
  /\ input.title = " " /\ input.room = "room_x"
  /\ result.msg = "title"

\* The invariants of ReservationData.
ValidReservation(d) ==
  /\ d.start_dt < d.end_dt
  /\ d.room_id \in DOMAIN MEETING_ROOMS
  /\ d.team_id \in DOMAIN TEAMS
  /\ Strip(d.title) # ""

\* A stored page holds a valid reservation: its room and team are names of
\* the registries.
ValidPage(pg) ==
  /\ pg.start < pg.end
  /\ \E r \in DOMAIN MEETING_ROOMS : pg.room = MEETING_ROOMS[r].name
  /\ \E t \in DOMAIN TEAMS : pg.team = TEAMS[t]
  /\ Strip(pg.title) # ""

\* Worker p's step wrote a page to the store (create or update).
Wrote(p, ev) == pc[p] \in {"create", "update"} /\ ev \in Range(log'[p]) \ Range(log[p])

\* The data parse_modal_data returned for a form, in the function-level runs.
ParsedDataValid == (Parsed /\ result.exc = NoExc) => ValidReservation(result.data)

\* C12: every ReservationData parse_modal_data returns to a create or edit
\* submission, and every page such a submission writes, has start < end, a
\* room and a team of the registries and a title that is not blank.
C12_ReservationDataValid ==
  [][\A p \in Procs :
       /\ (kind'[p] \in {"create", "edit"} /\ pc'[p] \notin {"idle", "done"})
            => ValidReservation(data'[p])
       /\ Wrote(p, "create_ok") => ValidPage(store'[Len(store')])
       /\ Wrote(p, "update_ok") => ValidPage(store'[target[p]])]_vars

C12_Witness ==
  /\ kind["w1"] = "create" /\ outcome["w1"] = "Persisted"
  /\ kind["w2"] = "edit" /\ outcome["w2"] = "Persisted"
  /\ \A i \in DOMAIN store : ValidPage(store[i])

\* The texts written for the user; any other text is an internal one.
UserTexts == {"title", "room", "generic", "time_order", "team_missing", "team_invalid",
              "no_page"}

\* Extracting the fields of form v raises: the view has not the expected
\* shape, or the first field that decides the answer cannot be read.
ExtractionRaises(v) ==
  \/ v.shape # "ok"
  \/ /\ BrokenRules(v) # {}
     /\ RuleError(v, EarliestBroken(v)) = "generic"

\* C13: an exception raised while the fields are extracted from the form is
\* reported as a ValidationError with the generic user-facing message.
C13_ExtractionIsValidationError ==
  (Parsed /\ ExtractionRaises(input)) =>
    /\ result.exc = ValidationError
    /\ result.msg = "generic"

\* The input blocks of the form that belong to rule i.
RuleBlocks(i) ==
  CASE i = 1 -> {"title_block"}
    [] i = 2 -> {"room_block"}
    [] i = 3 -> {"date_block", "start_time_block", "end_time_block"}
    [] i = 4 -> {"date_block", "start_time_block", "end_time_block"}
    [] OTHER -> {"team_block"}

\* C14: the validation error answered to the form is attached to an input of
\* the field whose rule failed, for every rule that can fail.
C14_ErrorOnFailingField ==
  (Parsed /\ input.shape = "ok" /\ result.exc = ValidationError) =>
    /\ result.ack.response_action = "errors"
    /\ DOMAIN result.ack.errors # {}
    /\ DOMAIN result.ack.errors \subseteq RuleBlocks(EarliestBroken(input))

\* C15: a successful edit of page R mutates R in place: R keeps its id and
\* takes the submitted values, the number of pages does not change and every
\* other page is left as it was.
C15_EditInPlace ==
  [][\A p \in Procs : Wrote(p, "update_ok") =>
       /\ Len(store') = Len(store)
       /\ \A i \in DOMAIN store : i # target[p] => store'[i] = store[i]
       /\ store'[target[p]] =
            UpdatedPage(store[target[p]], build_reservation_properties(data[p]))
       /\ store'[target[p]].start = data[p].start_dt
       /\ store'[target[p]].end = data[p].end_dt
       /\ store'[target[p]].archived = store[target[p]].archived]_vars

\* The page the run started with was moved by an edit while another page
\* created in the run stands next to it.
C15_Witness ==
  \E p \in Procs :
    /\ kind[p] = "edit" /\ outcome[p] = "Persisted" /\ target[p] = 1
    /\ Len(store) = 2 /\ store[1].start = 0 /\ store[1].start = data[p].start_dt

\* The validation and store interactions of a submission, by kind of step;
\* acknowledgements and messages are left out, create and update are both
\* the write.
StepOf(ev) ==
  CASE ev \in {"parse_ok", "parse_raise"}   -> "validate"
    [] ev = "query_ok"                      -> "query"
    [] ev = "query_fail"                    -> "query_fail"
    [] ev \in {"create_ok", "update_ok"}     -> "write"
    [] ev \in {"create_fail", "update_fail"} -> "write_fail"
    [] OTHER                                -> "other"

Steps(p) ==
  LET s == SelectSeq(log[p], LAMBDA ev : StepOf(ev) # "other")
  IN  [i \in 1..Len(s) |-> StepOf(s[i])]

\* Sequence s with a second conflict query right after its first one.
InsertRecheck(s) ==
  IF Len(s) >= 2 /\ s[2] = "query"
    THEN <<s[1], s[2], "query">> \o SubSeq(s, 3, Len(s))
    ELSE s

\* Worker p ran a create and worker q an edit, and both were persisted.
BothPersisted(p, q) ==
  /\ kind[p] = "create" /\ outcome[p] = "Persisted"
  /\ kind[q] = "edit" /\ outcome[q] = "Persisted"

C17_CancelledNeverReturned ==
  [][/\ \A i \in DOMAIN store : store[i].archived => store'[i].archived
     /\ (store' # store \/ ops = 0) =>
          \A q \in get_reservations_by_date(store', NoDate, RunNow, KST) :
            \A i \in Range(q) : ~store'[i].archived
     /\ \A p \in Procs : QueryReturned(p) =>
          /\ \A i \in Range(conflicts'[p]) : ~store[i].archived
          /\ (kind[p] = "create" /\ FreeSlot(store, data[p], 0))
               => (conflicts'[p] = <<>> /\ pc'[p] # "done")]_vars

\* Page 1 was cancelled and a create for its room and exact range was
\* persisted after it.
C17_Witness ==
  \E p, q \in Procs :
    /\ kind[p] = "cancel" /\ outcome[p] = "Cancelled" /\ target[p] = 1
    /\ kind[q] = "create" /\ outcome[q] = "Persisted"
    /\ Len(store) = 2 /\ store[1].archived /\ ~store[2].archived
    /\ store[2].room = store[1].room
    /\ store[2].start = store[1].start /\ store[2].end = store[1].end

\* Worker p's step is the archive call of a cancel, accepted by the store,
\* on a page that was archived already.
ArchivedAgain(p) ==
  /\ pc[p] = "archive" /\ pc'[p] = "done"
  /\ "archive_ok" \in Range(log'[p])
  /\ store[target[p]].archived

\* C18: cancelling a reservation that is archived already leaves the store
\* as the first cancel left it, with the page still archived, and ends like
\* a first cancel: no error, the cancel is reported as done.
C18_CancelIdempotent ==
  [][\A p \in Procs : ArchivedAgain(p) =>
       /\ store' = store
       /\ store'[target[p]].archived
       /\ \A q \in get_reservations_by_date(store', NoDate, RunNow, KST) : target[p] \notin Range(q)
       /\ "msg_cancel_done" \in Range(log'[p])
            => (raised'[p] = NoExc /\ outcome'[p] = "Cancelled")
       /\ "archive_fail" \notin Range(log'[p])]_vars

\* Both workers cancelled page 1: one of the two archive calls met a page
\* that was archived already.
C18_Witness ==
  /\ \A p \in Procs :
       kind[p] = "cancel" /\ target[p] = 1 /\ outcome[p] = "Cancelled"
  /\ store[1].archived

\* C19: the date, start time and end time picked in a valid create come back
\* unchanged in the pre-fill of the edit modal, whichever UTC offset the
\* store writes the stored instants in.
C19_RoundTrip ==
  Parsed =>
    /\ result.date = input.date
    /\ result.start_time = input.start_time
    /\ result.end_time = input.end_time

\* An early-morning reservation whose start the store returns on the
\* previous calendar day (UTC), pre-filled with the picked date and times.
C19_Witness ==
  /\ Parsed
  /\ input.off = 0 /\ input.date = 1 /\ input.start_time < KST
  /\ retrieved_page(build_date_properties(parse_modal_datetimes(input)), 0).start.date = 0
  /\ result.date = 1 /\ result.start_time = input.start_time

\* Position of event ev in log lg (0: not there).
At(lg, ev) == IF ev \in Range(lg) THEN CHOOSE i \in DOMAIN lg : lg[i] = ev ELSE 0

\* C20: in a create the confirmation is sent only after pages.create returned
\* the new page, and it carries that page's id; a create that ended in a
\* validation error, a conflict or a store error sent no confirmation.
C20_ConfirmAfterCreate ==
  [][\A p \in Procs : kind'[p] = "create" =>
       /\ ("confirm" \in Range(log'[p]) /\ "confirm" \notin Range(log[p])) =>
            /\ 0 < At(log'[p], "create_ok")
            /\ At(log'[p], "create_ok") < At(log'[p], "confirm")
            /\ Len(store') = Len(store) + 1
            /\ data'[p].page_id = Len(store')
            /\ store'[data'[p].page_id].start = data[p].start_dt
            /\ store'[data'[p].page_id].end = data[p].end_dt
            /\ store'[data'[p].page_id].room = data[p].room_name
            /\ outcome'[p] = "Persisted"
       /\ (\/ outcome'[p] \in {"RejectedValidation", "RejectedConflict"}
           \/ Range(log'[p]) \cap {"query_fail", "create_fail"} # {})
            => "confirm" \notin Range(log'[p])]_vars

\* One create was confirmed with the id of the page it added, the other
\* was refused for a conflict and sent nothing.
C20_Witness ==
  /\ kind["w1"] = "create" /\ outcome["w1"] = "Persisted"
  /\ log["w1"] = <<"parse_ok", "query_ok", "ack", "query_ok", "create_ok", "confirm">>
  /\ data["w1"].page_id = 2 /\ Len(store) = 2
  /\ kind["w2"] = "create" /\ outcome["w2"] = "RejectedConflict"
  /\ "confirm" \notin Range(log["w2"])

\* The acknowledgements a modal handler answers the submission with.
AckEvents == {"ack", "ack_update", "ack_errors"}

\* C21: in a create or edit submission the acknowledgement comes first: no
\* store call of the submission precedes it.
C21_AckBeforeStoreCalls ==
  \A p \in Procs : kind[p] \in {"create", "edit"} =>
    \A i \in DOMAIN log[p] : log[p][i] \in StoreEvents =>
      \E j \in 1..(i - 1) : log[p][j] \in AckEvents

\* Number of events of set S in log lg.
Count(lg, S) == Cardinality({i \in DOMAIN lg : lg[i] \in S})

CreateCalls == {"create_ok", "create_fail"}
UpdateCalls == {"update_ok", "update_fail"}

\* C22: one submission issues at most one create call or one update call,
\* whether the call succeeds or fails: a failed call ends the submission with
\* the store unchanged, and a step adds at most one page, the one of the
\* create call it is.
C22_NoRetry ==
  [][/\ \A p \in Procs :
          /\ Count(log'[p], CreateCalls \cup UpdateCalls) <= 1
          /\ kind'[p] = "edit" => Count(log'[p], CreateCalls) = 0
          /\ kind'[p] = "create" => Count(log'[p], UpdateCalls) = 0
          /\ (Wrote(p, "create_fail") \/ Wrote(p, "update_fail"))
               => (pc'[p] = "done" /\ outcome'[p] = "Failed" /\ store' = store)
     /\ Len(store') - Len(store) = Cardinality({p \in Procs : Wrote(p, "create_ok")})
     /\ Len(store') - Len(store) \in {0, 1}]_vars

\* A create whose single create call failed and an edit whose single update
\* call failed: both are over and the store holds what it held before.
C22_Witness ==
  /\ kind["w1"] = "create" /\ outcome["w1"] = "Failed"
  /\ log["w1"] = <<"parse_ok", "query_ok", "ack", "query_ok", "create_fail",
                   "msg_create_failed">>
  /\ kind["w2"] = "edit" /\ outcome["w2"] = "Failed"
  /\ log["w2"] = <<"parse_ok", "query_ok", "ack", "update_fail", "msg_update_failed">>
  /\ Len(store) = 1

\* C23: no message shown to the user after a store failure or an unexpected
\* exception contains the text of the underlying exception.
C23_NoInternalText ==
  Parsed => \A i \in DOMAIN result.messages :
              Range(result.messages[i]) \cap InternalTexts = {}

ReadEvents == {"read_ok", "read_raise", "read_timeout"}

\* The background task of user u was started / got an outcome of its store
\* read / published a home view.
HomeStarted(u) == result[u].pc # "idle"
HomeReadDone(u) == Range(result[u].log) \cap ReadEvents # {}
HomePublished(u) == result[u].view \in {"full", "fallback"}

\* The publish calls of user u's task succeed.
PublishSucceeds(u) == input[u].publish = "ok" /\ input[u].fallback = "ok"

HomeFallbackOnly ==
  /\ [](\A u \in Users : ~HomeReadDone(u) /\ result[u].view # "full")
  /\ \A u \in Users :
       (HomeStarted(u) /\ input[u].fallback = "ok") ~> (result[u].view = "fallback")

\* Sequence q of page ids is in ascending order of stored start in store st.
AscendingByStart(st, q) ==
  \A i, j \in DOMAIN q : i < j => st[q[i]].start <= st[q[j]].start

\* C25: the list a conflict query returns is in ascending start order, so
\* its first element, the conflict the modal handlers display, is the
\* earliest-starting overlapping reservation.
C25_ConflictsAscending ==
  [][\A p \in Procs : QueryReturned(p) =>
       /\ AscendingByStart(store, conflicts'[p])
       /\ conflicts'[p] # <<>> =>
            \A i \in Range(conflicts'[p]) :
              store[conflicts'[p][1]].start <= store[i].start]_vars

\* Parsing conflict c raises.
ParseRaises(c) == c.shape \in {"title_no_text", "bad_start"}

\* C26: the ConflictError carries one display record per conflict returned
\* by the query, in the order of the query: the record of a conflict that
\* parses shows that conflict, the record of one that does not is the
\* placeholder, and none is dropped.
C26_WholeConflictSet ==
  (Parsed /\ input # <<>>) =>
    /\ result.exc = ConflictError
    /\ Len(result.conflicting_reservations) = Len(input)
    /\ \A i \in DOMAIN input :
         LET shown == result.conflicting_reservations[i] IN
           /\ input[i].shape = "ok" =>
                /\ shown.title = input[i].title /\ shown.team_name = input[i].team
                /\ shown.start_time = input[i].start /\ shown.end_time = input[i].end
           /\ ParseRaises(input[i]) => shown = ParseFailed
           /\ ~ParseRaises(input[i]) => shown # ParseFailed

\* Three conflicts of which the middle one does not parse: three records,
\* the placeholder between the two others.
C26_Witness ==
  /\ Parsed /\ Len(input) = 3
  /\ input[1].shape = "ok" /\ input[1].title = "B"
  /\ ParseRaises(input[2])
  /\ input[3].shape = "ok" /\ input[3].title = "A"
  /\ Len(result.conflicting_reservations) = 3
  /\ result.conflicting_reservations[1].title = "B"
  /\ result.conflicting_reservations[2] = ParseFailed
  /\ result.conflicting_reservations[3].title = "A"

\* The calendar date, on the server's calendar, of the stored start of page pg.
LocalDateOf(pg, local_tz) == strftime_date(astimezone(page_start(pg), local_tz))

\* The day a date query is about: the target date, today when none is given.
TargetDay(in) ==
  strftime_date(IF in.target_date = NoDate THEN in.now ELSE in.target_date)

\* C27: get_reservations_by_date returns exactly the non-archived pages
\* whose start falls on the target day (first and last instant of the day
\* included), in ascending order of start; without a date the day is today.
C27_ByDateExact ==
  Parsed =>
    /\ result.lists # {}
    /\ \A q \in result.lists :
         /\ Range(q) = {i \in DOMAIN input.pages :
                          /\ ~input.pages[i].archived
                          /\ LocalDateOf(input.pages[i], input.local_tz) = TargetDay(input)}
         /\ \A i, j \in DOMAIN q : i # j => q[i] # q[j]
         /\ AscendingByStart(input.pages, q)
    /\ input.target_date = NoDate =>
         result.lists = get_reservations_by_date(input.pages, input.now, input.now,
                                                 input.local_tz)

\* No date given on day 1 of a KST server: the page starting at the last
\* instant of the day and the page starting at its first instant are
\* returned, in ascending order.
C27_Witness ==
  /\ Parsed
  /\ input.target_date = NoDate /\ input.now = Noon(1) /\ input.local_tz = KST
  /\ Len(input.pages) = 2
  /\ input.pages[1].start = 2 * SlotsPerDay - 1 /\ ~input.pages[1].archived
  /\ input.pages[2].start = SlotsPerDay /\ ~input.pages[2].archived
  /\ result.lists = {<<2, 1>>}

\* The rooms of registry reg that are marked default.
DefaultRooms(reg) == {r \in DOMAIN reg.rooms : reg.rooms[r].is_default}

\* Room r comes before every other default room in the order of the registry.
FirstDefault(reg, r) ==
  /\ r \in DefaultRooms(reg)
  /\ \A i, j \in DOMAIN reg.order :
       (reg.order[i] = r /\ reg.order[j] \in DefaultRooms(reg)) => i <= j

\* C28: with no room option selected the request's room is the configured
\* default room; with no room marked default, or a room id that is not in
\* the registry, validation fails with the room error; a selected room of
\* the registry is taken as it is.
C28_DefaultRoom ==
  Parsed =>
    /\ (input.selected_room = NoneVal /\ DefaultRooms(input.registry) # {}) =>
         /\ result.exc = NoExc
         /\ FirstDefault(input.registry, result.room_id)
    /\ (input.selected_room = NoneVal /\ DefaultRooms(input.registry) = {}) =>
         (result.exc = ValidationError /\ result.msg = "room")
    /\ (input.selected_room # NoneVal
          /\ input.selected_room \notin DOMAIN input.registry.rooms) =>
         (result.exc = ValidationError /\ result.msg = "room")
    /\ input.selected_room \in DOMAIN input.registry.rooms =>
         (result.exc = NoExc /\ result.room_id = input.selected_room)

\* Nothing selected with two rooms of which the second is the default.
C28_Witness ==
  /\ Parsed /\ input.selected_room = NoneVal
  /\ input.registry.order = <<"room_1", "room_2">>
  /\ DefaultRooms(input.registry) = {"room_2"}
  /\ result.exc = NoExc /\ result.room_id = "room_2"

\* Worker p's step is its create or update call, answered or failed.
WriteStep(p) == pc[p] \in {"create", "update"} /\ pc'[p] = "done"

\* Position of the create or update call in log lg (0: none).
WriteAt(lg) ==
  IF Range(lg) \cap WriteEvents = {} THEN 0
  ELSE CHOOSE i \in DOMAIN lg : lg[i] \in WriteEvents

\* C29: in a create or edit submission the create or update call comes after
\* the validation and after a conflict query of the same submission, for the
\* room and range that are written, that returned the empty set.
C29_ValidateCheckPersist ==
  [][\A p \in Procs : kind'[p] \in {"create", "edit"} =>
       /\ pc'[p] \in {"final_check", "create", "update"} =>
            /\ log'[p][1] = "parse_ok"
            /\ "query_ok" \in Range(log'[p])
            /\ conflicts'[p] = <<>>
       /\ (QueryReturned(p) /\ conflicts'[p] = <<>>) =>
            FreeSlot(store, data[p], target[p])
       /\ pc[p] \in {"check", "final_check", "create", "update"} =>
            /\ data'[p].room_name = data[p].room_name
            /\ data'[p].start_dt = data[p].start_dt
            /\ data'[p].end_dt = data[p].end_dt
       /\ WriteStep(p) =>
            /\ At(log'[p], "parse_ok") = 1
            /\ 1 < At(log'[p], "query_ok")
            /\ At(log'[p], "query_ok") < WriteAt(log'[p])
            /\ "query_fail" \notin Range(log'[p])
            /\ conflicts[p] = <<>>]_vars

\* An edit went through validation, an empty conflict query and the update,
\* in that order; a create stopped at its conflict query and wrote nothing.
C29_Witness ==
  /\ kind["w1"] = "edit" /\ outcome["w1"] = "Persisted"
  /\ log["w1"] = <<"parse_ok", "query_ok", "ack", "update_ok", "msg_edit_done">>
  /\ kind["w2"] = "create" /\ outcome["w2"] = "RejectedConflict"
  /\ log["w2"] = <<"parse_ok", "query_ok", "ack_update">>

\* Worker p's step is the check create_reservation makes before the create.
FinalCheckStep(p) ==
  /\ kind[p] \in {"create", "svc_create"}
  /\ pc[p] = "final_check" /\ pc'[p] # pc[p]

\* C30: create_reservation queries the conflicts again right before the
\* create; when a live reservation of the room overlaps at that time, the
\* submission ends there as failed, without a create call and with the
\* store unchanged, and the create call is only reached from this check
\* having returned the empty list.
C30_RecheckBeforeCreate ==
  [][\A p \in Procs :
       /\ FinalCheckStep(p) =>
            /\ log'[p] # log[p]
            /\ log'[p][Len(log[p]) + 1] \in {"query_ok", "query_fail"}
            /\ store' = store
            /\ ~FreeSlot(store, data[p], 0) =>
                 /\ pc'[p] = "done"
                 /\ outcome'[p] = "Failed" /\ raised'[p] = NotionError
                 /\ Range(log'[p]) \cap CreateCalls = {}
            /\ pc'[p] = "create" =>
                 (conflicts'[p] = <<>> /\ FreeSlot(store, data[p], 0))
       /\ (kind'[p] \in {"create", "svc_create"} /\ pc'[p] = "create" /\ pc[p] # "create")
            => FinalCheckStep(p)]_vars

\* Both creates passed the handler's check on a free slot; the second one
\* ran its final check after the first had been persisted and added nothing.
C30_Witness ==
  /\ kind["w1"] = "create" /\ outcome["w1"] = "Persisted"
  /\ kind["w2"] = "create" /\ outcome["w2"] = "Failed"
  /\ log["w2"] = <<"parse_ok", "query_ok", "ack", "query_ok", "msg_create_failed">>
  /\ conflicts["w2"] = <<Len(store)>>
  /\ store[Len(store)].start = data["w1"].start_dt
  /\ OverlapsPage(store, Len(store), data["w2"])

\* The submissions of the two modal handlers.
ModalKinds == {"create", "edit"}

\* How many times worker p's running submission has been acknowledged.
Acks(p) == Count(log[p], AckEvents)

\* C31: every create or edit modal submission is acknowledged exactly once on
\* every path: never twice, not before the conflict query has answered, once
\* from then on (validation error, conflict, store failure before the
\* acknowledgement, success, failure of the persist step after it).
C31_AckExactlyOnce ==
  \A p \in Procs :
    kind[p] \in ModalKinds =>
      /\ Acks(p) <= 1
      /\ pc[p] = "check" => Acks(p) = 0
      /\ pc[p] \in {"final_check", "create", "update", "done"} => Acks(p) = 1

\* One submission ended on a validation error, the other on a failure of the
\* persist step after its acknowledgement; each was acknowledged once.
C31_Witness ==
  /\ kind["w1"] \in ModalKinds /\ outcome["w1"] = "RejectedValidation"
  /\ log["w1"] = <<"parse_raise", "ack_errors">>
  /\ kind["w2"] \in ModalKinds /\ outcome["w2"] = "Failed"
  /\ Range(log["w2"]) \cap {"create_fail", "update_fail"} # {}
  /\ Acks("w2") = 1

\* C32: a create submission that told the user that creating the reservation
\* failed has persisted no reservation: its pages.create did not return a
\* page.
C32_FailedCreatePersistsNothing ==
  \A p \in Procs :
    (kind[p] = "create" /\ "msg_create_failed" \in Range(log[p]))
      => "create_ok" \notin Range(log[p])

\* The cancel actions of the two surfaces.
CancelKinds == {"cancel", "action_cancel"}

\* No cancel action sent both the succeeded and the failed message.
NeverBothCancelMessages ==
  \A p \in Procs :
    kind[p] \in CancelKinds =>
      ~({"msg_cancel_done", "msg_cancel_failed"} \subseteq Range(log[p]))

\* A cancel action that sent the failed message archived nothing.
FailedOnlyIfNotArchived ==
  \A p \in Procs :
    (kind[p] \in CancelKinds /\ "msg_cancel_failed" \in Range(log[p]))
      => "archive_ok" \notin Range(log[p])

\* C33: for one cancel action the user never receives both the
\* cancellation-succeeded and the cancellation-failed message, and the failed
\* message is sent only when the reservation was not archived.
C33_CancelMessagesExclusive == NeverBothCancelMessages /\ FailedOnlyIfNotArchived

ArchiveCalls == {"archive_ok", "archive_fail"}

\* Worker p's step ends its cancel at the fetch or the parse.
FetchOrParseFailed(p) ==
  kind[p] \in CancelKinds /\ pc[p] = "retrieve" /\ pc'[p] = "done"

\* C34: a cancel archives the record only after the record was fetched and
\* parsed: a failed fetch or parse ends the action with no archive call and
\* the store unchanged, every archive call of a cancel comes after its
\* successful fetch and parse, and a page only becomes archived in the
\* archive step of a cancel that fetched and parsed it.
C34_ArchiveAfterFetchAndParse ==
  [][/\ \A p \in Procs :
          /\ FetchOrParseFailed(p) =>
               /\ store' = store
               /\ Range(log'[p]) \cap ArchiveCalls = {}
               /\ Range(log'[p]) \cap {"retrieve_fail", "page_parse_fail"} # {}
               /\ outcome'[p] = "Failed"
          /\ (kind'[p] \in CancelKinds /\ Range(log'[p]) \cap ArchiveCalls # {}) =>
               /\ 0 < At(log'[p], "retrieve_ok")
               /\ At(log'[p], "retrieve_ok") < At(log'[p], "page_parse_ok")
               /\ \A i \in DOMAIN log'[p] :
                    log'[p][i] \in ArchiveCalls => At(log'[p], "page_parse_ok") < i
     /\ \A i \in DOMAIN store :
          (store'[i].archived /\ ~store[i].archived) =>
            \E p \in Procs :
              /\ kind[p] \in CancelKinds /\ pc[p] = "archive" /\ target[p] = i
              /\ {"retrieve_ok", "page_parse_ok"} \subseteq Range(log[p])]_vars

\* One cancel fetched the page and failed to parse it, and issued no archive
\* call; the other fetched, parsed and archived it.
C34_Witness ==
  /\ kind["w1"] = "cancel" /\ outcome["w1"] = "Failed"
  /\ log["w1"] = <<"ack", "retrieve_ok", "page_parse_fail", "msg_cancel_failed">>
  /\ kind["w2"] = "action_cancel" /\ outcome["w2"] = "Cancelled"
  /\ log["w2"] = <<"ack", "retrieve_ok", "page_parse_ok", "archive_ok",
                   "msg_cancel_done", "home_ok">>
  /\ target["w1"] = target["w2"] /\ store[target["w2"]].archived

\* C35: the archived flag is monotone: no step of a create, an edit or a
\* cancel clears it or removes the page, so a cancelled reservation stays
\* cancelled in every later state, an edit submitted for it included.
C35_ArchivedMonotone ==
  [][\A i \in DOMAIN store :
       store[i].archived => (i \in DOMAIN store' /\ store'[i].archived)]_vars

\* Page 1 was cancelled; the edit of the same page has passed its check and
\* is about to call pages.update on it.
C35_Witness ==
  /\ kind["w1"] = "cancel" /\ outcome["w1"] = "Cancelled" /\ target["w1"] = 1
  /\ store[1].archived
  /\ kind["w2"] = "edit" /\ target["w2"] = 1 /\ pc["w2"] = "update"
  /\ data["w2"].start_dt # store[1].start

\* The positions of a modal handler between its entry and its end, and how
\* far each is along the handler.
Running == {"check", "final_check", "create", "update"}
Rank == [l \in Running \cup {"done"} |->
           CASE l = "check" -> 1 [] l = "final_check" -> 2
             [] l \in {"create", "update"} -> 3 [] OTHER -> 4]

TerminalOutcomes == {"Persisted", "RejectedValidation", "RejectedConflict", "Failed"}

\* The submission of worker p is over, with a terminal outcome.
Ended(p) == pc[p] = "done" /\ outcome[p] \in TerminalOutcomes

\* C36: every create or edit modal submission reaches a terminal outcome
\* (persisted, validation-rejected, conflict-rejected or failed) after
\* finitely many steps, each store and chat call returning or raising: every
\* step of the handler moves it strictly forward, a handler that is over has
\* a terminal outcome, and a handler under way gets there.
C36_SubmissionTerminates ==
  /\ [][\A p \in Procs :
          (kind[p] \in ModalKinds /\ pc[p] \in Running /\ pc'[p] # "idle"
             /\ <<pc'[p], log'[p]>> # <<pc[p], log[p]>>)
            => (kind'[p] = kind[p] /\ Rank[pc'[p]] > Rank[pc[p]])]_vars
  /\ [](\A p \in Procs : (kind[p] \in ModalKinds /\ pc[p] = "done") => Ended(p))
  /\ \A p \in Procs : (kind[p] \in ModalKinds /\ pc[p] \in Running) ~> Ended(p)

\* A create on its way to the store create (its last step but one) while the
\* other submission has ended as persisted.
C36_Witness ==
  /\ kind["w1"] = "create" /\ pc["w1"] = "create"
  /\ log["w1"] = <<"parse_ok", "query_ok", "ack", "query_ok">>
  /\ kind["w2"] = "edit" /\ Ended("w2") /\ outcome["w2"] = "Persisted"

\* C37: for one stored reservation the conflict display record and the
\* pre-fill of the edit modal show the same start time and end time,
\* whichever UTC offset the store returns the stored instants in.
C37_SameTimesOnBothSurfaces ==
  Parsed =>
    /\ result.conflict.start_time = result.prefill.start_time
    /\ result.conflict.end_time = result.prefill.end_time

\* The two surfaces agree when the store answers in the home offset.
SameTimesInHomeOffset ==
  (Parsed /\ input.off = KST) =>
    /\ result.conflict.start_time = result.prefill.start_time
    /\ result.conflict.end_time = result.prefill.end_time
    /\ result.conflict.start_time = input.start_time
    /\ result.conflict.end_time = input.end_time

=============================================================================
